---------------------------- MODULE Spec2Model ----------------------------
(***************************************************************************)
(* Vault link-consistency engine of mcp-obsidian-thinking.                 *)
(*                                                                         *)
(* A text is a sequence of characters, each character a one-character      *)
(* string.  The back-quote cannot be written inside a TLA+ string, so the  *)
(* back-quote character is the value BQ.  A path is a text.  The vault is  *)
(* the set of paths of its files.  The existence cache is a function from  *)
(* the paths asked so far to the answers given.  The notes are a function  *)
(* from the paths of the vault to the texts of its files.                  *)
(*                                                                         *)
(* Two backends carry a copy of the engine: "api" is class Obsidian        *)
(* (obsidian.py, notes reached through the Local REST API), "fs" is class  *)
(* GitHubBackend (github_backend.py, notes in a local checkout).           *)
(***************************************************************************)
EXTENDS Naturals, Sequences, FiniteSets, TLC

VARIABLES backend, vault, cache, inp, out, pc, pass, notes, op, wrote, ret, procs

vars == <<backend, vault, cache, inp, out, pc, pass, notes, op, wrote, ret, procs>>

\* what only the operations on whole notes change
session == <<notes, op, wrote, ret>>

\* the invocations under way when two rewrites run at the same time
NoProcs == <<>>

-----------------------------------------------------------------------------
(* Characters and character classes of Python's re module (ASCII part).    *)

BQ == "bq"

LowerCase == <<"a","b","c","d","e","f","g","h","i","j","k","l","m",
               "n","o","p","q","r","s","t","u","v","w","x","y","z">>
UpperCase == <<"A","B","C","D","E","F","G","H","I","J","K","L","M",
               "N","O","P","Q","R","S","T","U","V","W","X","Y","Z">>
Letters == {LowerCase[i] : i \in 1..26} \cup {UpperCase[i] : i \in 1..26}
Digits == {"0","1","2","3","4","5","6","7","8","9"}

\* \w
IsWord(ch) == ch \in Letters \cup Digits \cup {"_"}

\* \s, and the characters str.strip() removes
IsSpace(ch) == ch \in {" ", "\t", "\n", "\r", "\f"}

\* [A-Za-z0-9_\-\s/]
IsPathChar(ch) == IsWord(ch) \/ IsSpace(ch) \/ ch \in {"-", "/"}

\* [A-Za-z0-9_\-\s/,\(\)]
IsPathCharFs(ch) == IsPathChar(ch) \/ ch \in {",", "(", ")"}

\* the lower-case form of a character, as re.IGNORECASE compares
Lower(ch) ==
    IF \E i \in 1..26 : UpperCase[i] = ch
    THEN LowerCase[CHOOSE i \in 1..26 : UpperCase[i] = ch]
    ELSE ch

-----------------------------------------------------------------------------
(* Python str operations on texts.                                         *)

Md == <<".", "m", "d">>
Open == <<"[", "[">>
Close == <<"]", "]">>
Delim == <<"-", "-", "-", "\n">>

\* s[i-1:].startswith(lit), 1-based i
MatchAt(s, i, lit) ==
    /\ i >= 1
    /\ i + Len(lit) - 1 <= Len(s)
    /\ SubSeq(s, i, i + Len(lit) - 1) = lit

\* s[i-1:].lower().startswith(lit) for a lower-case lit
MatchAtNoCase(s, i, lit) ==
    /\ i >= 1
    /\ i + Len(lit) - 1 <= Len(s)
    /\ \A k \in 1..Len(lit) : Lower(s[i + k - 1]) = lit[k]

\* s.startswith(lit), s.endswith(lit)
StartsWith(s, lit) == MatchAt(s, 1, lit)
EndsWith(s, lit) == MatchAt(s, Len(s) - Len(lit) + 1, lit)

\* lit in s
Contains(s, lit) == \E i \in 1..(Len(s) + 1) : MatchAt(s, i, lit)

\* s.find(lit, i-1) + 1: the first position >= i where lit occurs, 0 if none
RECURSIVE Find(_, _, _)
Find(s, lit, i) ==
    IF i + Len(lit) - 1 > Len(s) THEN 0
    ELSE IF MatchAt(s, i, lit) THEN i
    ELSE Find(s, lit, i + 1)

\* s[i-1:]
From(s, i) == SubSeq(s, i, Len(s))

\* s[:-3] if s.endswith('.md') else s
DropMd(s) == IF EndsWith(s, Md) THEN SubSeq(s, 1, Len(s) - 3) ELSE s

\* s.split('/')[-1]
RECURSIVE LastSlash(_, _)
LastSlash(s, i) ==
    IF i = 0 THEN 0 ELSE IF s[i] = "/" THEN i ELSE LastSlash(s, i - 1)

LastSegment(s) == From(s, LastSlash(s, Len(s)) + 1)

\* s.strip()
RECURSIVE LStrip(_)
LStrip(s) ==
    IF s # <<>> /\ IsSpace(Head(s)) THEN LStrip(Tail(s)) ELSE s

RECURSIVE RStrip(_)
RStrip(s) ==
    IF s # <<>> /\ IsSpace(s[Len(s)]) THEN RStrip(SubSeq(s, 1, Len(s) - 1)) ELSE s

Strip(s) == RStrip(LStrip(s))

\* re.sub(r'(?:\.\.\/|\.\/)+', '', s), scanning from position i
RECURSIVE StripRelFrom(_, _)
StripRelFrom(s, i) ==
    IF i > Len(s) THEN <<>>
    ELSE IF MatchAt(s, i, <<".", ".", "/">>) THEN StripRelFrom(s, i + 3)
    ELSE IF MatchAt(s, i, <<".", "/">>) THEN StripRelFrom(s, i + 2)
    ELSE <<s[i]>> \o StripRelFrom(s, i + 1)

StripRel(s) == StripRelFrom(s, 1)

\* s.split('/'), as a sequence of segments
RECURSIVE SplitSlashFrom(_, _, _)
SplitSlashFrom(s, i, seg) ==
    IF i > Len(s) THEN <<seg>>
    ELSE IF s[i] = "/" THEN <<seg>> \o SplitSlashFrom(s, i + 1, <<>>)
    ELSE SplitSlashFrom(s, i + 1, Append(seg, s[i]))

SplitSlash(s) == SplitSlashFrom(s, 1, <<>>)

-----------------------------------------------------------------------------
(* Existence Index.                                                        *)

EmptyCache == [p \in {} |-> TRUE]

\* the path components pathlib keeps: empty and "." components are dropped
RECURSIVE DropDots(_)
DropDots(segs) ==
    IF segs = <<>> THEN <<>>
    ELSE IF Head(segs) \in {<<>>, <<".">>} THEN DropDots(Tail(segs))
    ELSE <<Head(segs)>> \o DropDots(Tail(segs))

PathParts(p) == DropDots(SplitSlash(p))

IsPrefix(a, b) == Len(a) <= Len(b) /\ SubSeq(b, 1, Len(a)) = a

\* the directories the files of vault v imply, as component sequences
\* (the vault root is the empty sequence)
DirExists(v, parts) ==
    \E f \in v : Len(parts) < Len(PathParts(f)) /\ IsPrefix(parts, PathParts(f))

\* the components left when the ".." components of parts are followed
\* from the vault root: [ok |-> FALSE] when a ".." follows something that
\* is no directory, or leaves the vault (what lies outside the vault is
\* not part of the model; the inputs of the model never lead there)
RECURSIVE FollowDotDot(_, _, _)
FollowDotDot(v, parts, stack) ==
    IF parts = <<>> THEN [ok |-> TRUE, parts |-> stack]
    ELSE IF Head(parts) = <<".", ".">>
         THEN IF stack # <<>> /\ DirExists(v, stack)
              THEN FollowDotDot(v, Tail(parts), SubSeq(stack, 1, Len(stack) - 1))
              ELSE [ok |-> FALSE, parts |-> <<>>]
    ELSE FollowDotDot(v, Tail(parts), Append(stack, Head(parts)))

\* the components r.parts name the vault root, a directory or a file
PathExists(v, r) ==
    /\ r.ok
    /\ \/ r.parts = <<>>
       \/ DirExists(v, r.parts)
       \/ \E f \in v : PathParts(f) = r.parts

\* Path.exists() of vault_path / filepath: a file or a directory
GitHubBackend_get_file_path_exists(v, filepath) ==
    PathExists(v, FollowDotDot(v, PathParts(filepath), <<>>))


\* _list_markdown_files: rglob("*.md") without the paths that have a
\* component starting with "."
GitHubBackend_list_markdown_files(v) ==
    {f \in v : /\ EndsWith(f, Md)
               /\ \A k \in 1..Len(PathParts(f)) : Head(PathParts(f)[k]) # "."}

\* Path.name and Path.stem of a markdown file
PathName(f) == LastSegment(f)
PathStem(f) == DropMd(LastSegment(f))

\* what _file_exists_in_vault computes when the cache has no answer
GitHubBackend_lookup(v, filepath) ==
    \/ GitHubBackend_get_file_path_exists(v, filepath)
    \/ /\ ~Contains(filepath, <<"/">>)
       /\ \E f \in GitHubBackend_list_markdown_files(v) :
              \/ PathStem(f) = DropMd(filepath)
              \/ PathName(f) = filepath

\* get_file_contents succeeds: GET /vault/<filepath> answers a file, and
\* answers a directory listing for "" and for "<dir>/" (the URLs that
\* list_files_in_vault and list_files_in_dir use)
Obsidian_get_file_contents_ok(v, filepath) ==
    \/ filepath \in v
    \/ filepath = <<>>
    \/ /\ filepath # <<>>
       /\ filepath[Len(filepath)] = "/"
       /\ DirExists(v, SplitSlash(SubSeq(filepath, 1, Len(filepath) - 1)))

Obsidian_lookup(v, filepath) == Obsidian_get_file_contents_ok(v, filepath)

\* self._file_existence_cache[filepath] = r; return r
CacheAnswer(c, filepath, r) == [hit |-> r, c |-> c @@ (filepath :> r)]

\* an existence check that reads the backend every time and stores what it
\* finds over the entry the cache has
_file_exists_in_vault_reread(b, c, v, filepath) ==
    [hit |-> IF b = "api" THEN Obsidian_lookup(v, filepath)
             ELSE GitHubBackend_lookup(v, filepath),
     c |-> (filepath :> (IF b = "api" THEN Obsidian_lookup(v, filepath)
                         ELSE GitHubBackend_lookup(v, filepath))) @@ c]

\* _file_exists_in_vault of backend b with cache c over vault v: the answer
\* and the cache afterwards
_file_exists_in_vault(b, c, v, filepath) ==
    IF filepath \in DOMAIN c THEN [hit |-> c[filepath], c |-> c]
    ELSE CacheAnswer(c, filepath,
                     IF b = "api" THEN Obsidian_lookup(v, filepath)
                     ELSE GitHubBackend_lookup(v, filepath))

\* a chain  f(p1) or f(p2) or ...  of existence checks, left to right,
\* stopping at the first True
RECURSIVE ExistsAny(_, _, _, _)

\* the rest of the chain after the answer r of its first check
OrElse(r, b, v, paths) ==
    IF r.hit THEN r ELSE ExistsAny(b, r.c, v, paths)

ExistsAny(b, c, v, paths) ==
    IF paths = <<>> THEN [hit |-> FALSE, c |-> c]
    ELSE OrElse(_file_exists_in_vault(b, c, v, Head(paths)), b, v, Tail(paths))

-----------------------------------------------------------------------------
(* Reference Normalizer.                                                   *)

\* normalized_path / normalized_content of a link target
NormalizedName(link_path) == DropMd(LastSegment(StripRel(link_path)))

\* original_path_clean of a link target
OriginalPathClean(link_path) == DropMd(StripRel(link_path))

\* the resolution test of a link target
ResolveLink(b, c, v, link_path) ==
    ExistsAny(b, c, v, << OriginalPathClean(link_path),
                          OriginalPathClean(link_path) \o Md,
                          NormalizedName(link_path),
                          NormalizedName(link_path) \o Md >>)

\* link_content.split('|', 1) of the API backend, both parts stripped
Obsidian_split_display(link_content) ==
    LET k == Find(link_content, <<"|">>, 1) IN
    [link_path |-> Strip(SubSeq(link_content, 1, k - 1)),
     display_text |-> Strip(From(link_content, k + 1))]

\* link_content.split('|', 1) of the file-system backend
GitHubBackend_split_display(link_content) ==
    LET k == Find(link_content, <<"|">>, 1) IN
    [link_path |-> SubSeq(link_content, 1, k - 1),
     display_text |-> From(link_content, k + 1)]

\* what normalize_wiki_link returns for [[link_content]] once the
\* resolution test of its target has answered r: the Reference to name,
\* with the suffix kept, or the original link unchanged
EmitLink(r, name, suffix, link_content) ==
    [t |-> IF r.hit THEN Open \o name \o suffix \o Close
           ELSE Open \o link_content \o Close,
     c |-> r.c]

\* the branch of normalize_wiki_link for a link with display text
NormalizeWithDisplay(b, c, v, link_content, parts) ==
    EmitLink(ResolveLink(b, c, v, parts.link_path),
             NormalizedName(parts.link_path),
             <<"|">> \o parts.display_text, link_content)

\* normalize_wiki_link / normalize_yaml_link on one matched [[link_content]]:
\* the replacement text and the cache afterwards
normalize_wiki_link(b, c, v, link_content) ==
    IF Contains(link_content, <<"|">>)
    THEN NormalizeWithDisplay(b, c, v, link_content,
                              IF b = "api" THEN Obsidian_split_display(link_content)
                              ELSE GitHubBackend_split_display(link_content))
    ELSE EmitLink(ResolveLink(b, c, v, link_content),
                  NormalizedName(link_content), <<>>, link_content)

\* where the match of \[\[([^\]]+)\]\] that starts at i ends (the position
\* of its first "]"), 0 if there is no match at i
LinkEnd(s, i) ==
    LET j == IF MatchAt(s, i, Open) THEN Find(s, <<"]">>, i + 2) ELSE 0 IN
    IF j > i + 2 /\ MatchAt(s, j, Close) THEN j ELSE 0

\* re.sub(r'\[\[([^\]]+)\]\]', normalize_wiki_link, s), from position i
RECURSIVE NormalizeLinksFrom(_, _, _, _, _, _)

\* the scan goes on from i after a match that normalize_wiki_link
\* replaced by r.t
NormalizeLinksAfter(b, v, s, i, acc, r) ==
    NormalizeLinksFrom(b, r.c, v, s, i, acc \o r.t)

NormalizeLinksFrom(b, c, v, s, i, acc) ==
    IF i > Len(s) THEN [t |-> acc, c |-> c]
    ELSE LET j == LinkEnd(s, i) IN
         IF j # 0
         THEN NormalizeLinksAfter(b, v, s, j + 2, acc,
                  normalize_wiki_link(b, c, v, SubSeq(s, i + 2, j - 1)))
         ELSE NormalizeLinksFrom(b, c, v, s, i + 1, Append(acc, s[i]))

_normalize_frontmatter_links(b, c, v, frontmatter_text) ==
    NormalizeLinksFrom(b, c, v, frontmatter_text, 1, <<>>)

\* len(re.findall(r'\[\[[^\]]+\]\]', s)), from position i
RECURSIVE CountLinksFrom(_, _)
CountLinksFrom(s, i) ==
    IF i > Len(s) THEN 0
    ELSE LET j == LinkEnd(s, i) IN
         IF j # 0 THEN 1 + CountLinksFrom(s, j + 2) ELSE CountLinksFrom(s, i + 1)

-----------------------------------------------------------------------------
(* Mention Detector: the candidate patterns.                               *)

LinkThreshold == 10

\* the first position >= i whose character is outside the path class
\* (Len(s) + 1 if none): the end of a greedy [A-Za-z0-9_\-\s/]+ run, or of
\* a [A-Za-z0-9_\-\s/,\(\)]+ run when fs
RECURSIVE RunEnd(_, _, _)
RunEnd(s, i, fs) ==
    IF i > Len(s) THEN i
    ELSE IF (IF fs THEN IsPathCharFs(s[i]) ELSE IsPathChar(s[i]))
         THEN RunEnd(s, i + 1, fs)
    ELSE i

\* the first position >= i whose character is not white space
RECURSIVE SpaceEnd(_, _)
SpaceEnd(s, i) ==
    IF i <= Len(s) /\ IsSpace(s[i]) THEN SpaceEnd(s, i + 1) ELSE i

\* re.findall of  q([^q]+\.md)q  for a quote character q, from position i
RECURSIVE FindQuoted(_, _, _)
FindQuoted(s, q, i) ==
    IF i > Len(s) THEN {}
    ELSE LET j == IF s[i] = q THEN Find(s, <<q>>, i + 1) ELSE 0 IN
         IF j >= i + 5 /\ MatchAt(s, j - 3, Md)
         THEN {SubSeq(s, i + 1, j - 1)} \cup FindQuoted(s, q, j + 1)
         ELSE FindQuoted(s, q, i + 1)

Obsidian_keywords ==
    << <<"f","r","o","m">>, <<"i","n">>, <<"s","e","e">>,
       <<"b","a","s","e","d"," ","o","n">>,
       <<"a","c","c","o","r","d","i","n","g"," ","t","o">>,
       <<"s","o","u","r","c","e",":">>,
       <<"r","e","f","e","r","e","n","c","e",":">> >>

GitHubBackend_keywords ==
    Obsidian_keywords \o << <<"l","o","c","a","t","i","o","n",":">> >>

\* the position after the keyword that matches at i, 0 if none does
KeywordEnd(s, i, kws) ==
    IF \E k \in 1..Len(kws) : MatchAtNoCase(s, i, kws[k])
    THEN i + Len(kws[CHOOSE k \in 1..Len(kws) : MatchAtNoCase(s, i, kws[k])])
    ELSE 0

\* the match at i of
\*   (?:from|in|...)\s+([A-Za-z0-9_\-\s/]+\.md)   with re.IGNORECASE:
\* [g |-> first position of the group, e |-> position of its ".md"], or
\* e = 0 if there is no match at i.  \s+ takes all the leading white space
\* but leaves the group one character.
Obsidian_contextual_at(s, i) ==
    LET r == KeywordEnd(s, i, Obsidian_keywords)
        e == RunEnd(s, r, FALSE)
        w == SpaceEnd(s, r)
    IN IF r # 0 /\ r <= Len(s) /\ IsSpace(s[r]) /\ e - r >= 2
          /\ MatchAtNoCase(s, e, Md)
       THEN [g |-> IF w >= e THEN e - 1 ELSE w, e |-> e, next |-> e + 3]
       ELSE [g |-> 0, e |-> 0, next |-> i + 1]

\* the match at i of
\*   (?:from|in|...|location:)\s+[`"]?([A-Za-z0-9_\-\s/,\(\)]+\.md)[`"]?
GitHubBackend_contextual_at(s, i) ==
    LET r == KeywordEnd(s, i, GitHubBackend_keywords)
        w == SpaceEnd(s, r)
        quoted == w <= Len(s) /\ s[w] \in {BQ, "\""}
        e == IF quoted THEN RunEnd(s, w + 1, TRUE) ELSE RunEnd(s, r, TRUE)
        ok == /\ r # 0 /\ r <= Len(s) /\ IsSpace(s[r])
              /\ IF quoted THEN e > w + 1 ELSE e - r >= 2
              /\ MatchAtNoCase(s, e, Md)
        after == IF e + 3 <= Len(s) /\ s[e + 3] \in {BQ, "\""}
                 THEN e + 4 ELSE e + 3
    IN IF ok
       THEN [g |-> IF quoted THEN w + 1 ELSE IF w >= e THEN e - 1 ELSE w,
             e |-> e, next |-> after]
       ELSE [g |-> 0, e |-> 0, next |-> i + 1]

\* re.findall of the contextual pattern of backend b, from position i
RECURSIVE FindContextual(_, _, _)
FindContextual(b, s, i) ==
    IF i > Len(s) THEN {}
    ELSE LET m == IF b = "api" THEN Obsidian_contextual_at(s, i)
                  ELSE GitHubBackend_contextual_at(s, i)
         IN (IF m.e # 0 THEN {SubSeq(s, m.g, m.e + 2)} ELSE {})
            \cup FindContextual(b, s, m.next)

\* \b at position i: between s[i-1] and s[i]
WordBoundary(s, i) ==
    (i > 1 /\ i - 1 <= Len(s) /\ IsWord(s[i - 1])) # (i <= Len(s) /\ IsWord(s[i]))

\* the match at i of  \b([A-Za-z0-9_\-\s/]+/[A-Za-z0-9_\-\s/]+\.md)\b :
\* the position of its ".md", 0 if there is no match at i
StandaloneAt(s, i) ==
    LET e == RunEnd(s, i, FALSE) IN
    IF /\ WordBoundary(s, i)
       /\ \E q \in (i + 1)..(e - 2) : s[q] = "/"
       /\ MatchAt(s, e, Md)
       /\ WordBoundary(s, e + 3)
    THEN e ELSE 0

RECURSIVE FindStandalone(_, _)
FindStandalone(s, i) ==
    IF i > Len(s) THEN {}
    ELSE LET e == StandaloneAt(s, i) IN
         IF e # 0 THEN {SubSeq(s, i, e + 2)} \cup FindStandalone(s, e + 3)
         ELSE FindStandalone(s, i + 1)

\* set(potential_paths) of the API backend
Obsidian_potential_paths(content) ==
    FindQuoted(content, "\"", 1) \cup FindQuoted(content, "'", 1)
        \cup FindContextual("api", content, 1) \cup FindStandalone(content, 1)

\* set(potential_paths) of the file-system backend
GitHubBackend_potential_paths(content) ==
    FindQuoted(content, "\"", 1) \cup FindQuoted(content, "'", 1)
        \cup FindQuoted(content, BQ, 1)
        \cup FindContextual("fs", content, 1) \cup FindStandalone(content, 1)

-----------------------------------------------------------------------------
(* Mention Detector: the replacement.                                      *)

_format_as_wiki_link(filepath) == Open \o DropMd(LastSegment(filepath)) \o Close

\* re.sub of the literal lit by rep, from position i
RECURSIVE ReplaceAllFrom(_, _, _, _)
ReplaceAllFrom(s, lit, rep, i) ==
    IF i > Len(s) THEN <<>>
    ELSE IF MatchAt(s, i, lit) THEN rep \o ReplaceAllFrom(s, lit, rep, i + Len(lit))
    ELSE <<s[i]>> \o ReplaceAllFrom(s, lit, rep, i + 1)

ReplaceAll(s, lit, rep) == ReplaceAllFrom(s, lit, rep, 1)

\* (?<!\[\[)(?<!q)...(?<!\w) path (?!\]\])(?!q)...(?!\w)  matches at i,
\* for the quote characters q of the set quotes
UnquotedAt(s, i, path, quotes) ==
    /\ MatchAt(s, i, path)
    /\ ~MatchAt(s, i - 2, Open)
    /\ i > 1 => (s[i - 1] \notin quotes /\ ~IsWord(s[i - 1]))
    /\ ~MatchAt(s, i + Len(path), Close)
    /\ i + Len(path) <= Len(s) =>
           (s[i + Len(path)] \notin quotes /\ ~IsWord(s[i + Len(path)]))

RECURSIVE ReplaceUnquotedFrom(_, _, _, _, _)
ReplaceUnquotedFrom(s, path, rep, quotes, i) ==
    IF i > Len(s) THEN <<>>
    ELSE IF UnquotedAt(s, i, path, quotes)
         THEN rep \o ReplaceUnquotedFrom(s, path, rep, quotes, i + Len(path))
    ELSE <<s[i]>> \o ReplaceUnquotedFrom(s, path, rep, quotes, i + 1)

\* the four substitutions of the API backend for one existing path
Obsidian_replace_path(content, path) ==
    LET wiki_link == _format_as_wiki_link(path)
        c1 == ReplaceAll(content, <<"\"">> \o path \o <<"\"">>, wiki_link)
        c2 == ReplaceAll(c1, <<"'">> \o path \o <<"'">>, wiki_link)
    IN ReplaceUnquotedFrom(c2, path, wiki_link, {"\"", "'"}, 1)

\* the five substitutions of the file-system backend for one existing path
GitHubBackend_replace_path(content, path) ==
    LET wiki_link == _format_as_wiki_link(path)
        c0 == ReplaceAll(content, <<BQ>> \o path \o <<BQ>>, wiki_link)
        c1 == ReplaceAll(c0, <<"\"">> \o path \o <<"\"">>, wiki_link)
        c2 == ReplaceAll(c1, <<"'">> \o path \o <<"'">>, wiki_link)
    IN ReplaceUnquotedFrom(c2, path, wiki_link, {"\"", "'", BQ}, 1)

HttpPrefix == <<"h","t","t","p",":","/","/">>
HttpsPrefix == <<"h","t","t","p","s",":","/","/">>

\* the loop  for path in set(potential_paths)  run in the order `order`:
\* the text and the cache afterwards
RECURSIVE LinkPaths(_, _, _, _, _)

\* one path of the loop, once _file_exists_in_vault has answered r
LinkPath(b, v, content, path, order, r) ==
    IF r.hit
    THEN LinkPaths(b, r.c, v,
                   IF b = "api" THEN Obsidian_replace_path(content, path)
                   ELSE GitHubBackend_replace_path(content, path),
                   order)
    ELSE LinkPaths(b, r.c, v, content, order)

LinkPaths(b, c, v, content, order) ==
    IF order = <<>> THEN [t |-> content, c |-> c]
    ELSE LET path == Strip(Head(order)) IN
         IF \/ path = <<>>
            \/ StartsWith(path, HttpPrefix) \/ StartsWith(path, HttpsPrefix)
            \/ Contains(content, Open \o path \o Close)
            \/ Contains(content, Open \o DropMd(path) \o Close)
         THEN LinkPaths(b, c, v, content, Tail(order))
         ELSE LinkPath(b, v, content, path, Tail(order),
                       _file_exists_in_vault(b, c, v, path))

\* the orders in which a set can be iterated
RECURSIVE Orders(_)
Orders(S) ==
    IF S = {} THEN {<<>>}
    ELSE UNION {{<<x>> \o o : o \in Orders(S \ {x})} : x \in S}

-----------------------------------------------------------------------------
(* Rewrite Orchestrator.                                                   *)

\* a threshold test that already stops at LinkThreshold References
DetectMentions_at_threshold(b, v, n) ==
    IF CountLinksFrom(n.t, 1) >= LinkThreshold THEN {n}
    ELSE {LinkPaths(b, n.c, v, n.t, o) :
             o \in Orders(IF b = "api" THEN Obsidian_potential_paths(n.t)
                          ELSE GitHubBackend_potential_paths(n.t))}

\* _process_body_content after its References are normalized, n being the
\* text and the cache then: the threshold test and the loop over the paths
DetectMentions(b, v, n) ==
    IF CountLinksFrom(n.t, 1) > LinkThreshold THEN {n}
    ELSE {LinkPaths(b, n.c, v, n.t, o) :
             o \in Orders(IF b = "api" THEN Obsidian_potential_paths(n.t)
                          ELSE GitHubBackend_potential_paths(n.t))}

\* _process_body_content: every outcome (text, cache) it can return; one
\* per iteration order of the candidate set
_process_body_content(b, c, v, content) ==
    DetectMentions(b, v, NormalizeLinksFrom(b, c, v, content, 1, <<>>))

\* content.split('---\n', 2)
SplitDelim(content) ==
    LET k1 == Find(content, Delim, 1)
        k2 == IF k1 = 0 THEN 0 ELSE Find(content, Delim, k1 + 4)
    IN IF k1 = 0 THEN <<content>>
       ELSE IF k2 = 0 THEN <<SubSeq(content, 1, k1 - 1), From(content, k1 + 4)>>
       ELSE <<SubSeq(content, 1, k1 - 1), SubSeq(content, k1 + 4, k2 - 1),
              From(content, k2 + 4)>>

\* the header test of _auto_link_content
HasFrontmatter(content) ==
    StartsWith(content, Delim) /\ Len(SplitDelim(content)) >= 3

\* a reassembly that puts the closing delimiter on a line of its own
Reassemble_own_line(frontmatter, body) ==
    Delim \o frontmatter \o <<"\n">> \o Delim \o body

\* f"---\n{normalized_frontmatter}---\n{processed_body}"
Reassemble(frontmatter, body) == Delim \o frontmatter \o Delim \o body

\* the header branch of _auto_link_content once the References of the
\* header are normalized, nf being the header text and the cache then
ProcessParts(b, v, nf, body) ==
    {[t |-> Reassemble(nf.t, r.t), c |-> r.c] :
        r \in _process_body_content(b, nf.c, v, body)}

\* _auto_link_content: every outcome (text, cache) it can return
_auto_link_content(b, c, v, content) ==
    IF HasFrontmatter(content)
    THEN ProcessParts(b, v,
                      _normalize_frontmatter_links(b, c, v, SplitDelim(content)[2]),
                      SplitDelim(content)[3])
    ELSE _process_body_content(b, c, v, content)

-----------------------------------------------------------------------------
(* The inputs of the model: the corpora and the content payloads.          *)

MaxItems == 2
MaxPasses == 2

Backends == {"api", "fs"}

PathAB == <<"a", "/", "b", ".", "m", "d">>
PathB == <<"b", ".", "m", "d">>

\* the corpora: a note in a folder, and the same with a root note b.md
Vaults == {{PathAB}, {PathAB, PathB}}

\* the References of a payload: bare, by path, with a doubled extension,
\* to no note; and with a display suffix
RefItems ==
    {Open \o t \o Close : t \in {<<"b">>, PathAB, PathB \o Md, <<"z">>}}
        \cup {Open \o <<"b", "|", " ", "x">> \o Close,
              Open \o PathAB \o <<"|", " ", "x">> \o Close,
              Open \o <<"z", "|">> \o PathAB \o <<" ">> \o Close}

\* the Mentions of a payload: a path bare and in each kind of quotes
MentionQuotes == {<<>>, <<"\"">>, <<"'">>, <<BQ>>}

MentionItems ==
    {q \o PathAB \o q : q \in MentionQuotes} \cup {<<"\"">> \o PathB \o <<"\"">>}

Fence == <<BQ, BQ, BQ>>

\* the pieces a payload body is made of
Items == RefItems \cup MentionItems \cup {<<" ">>, <<"i", "n", " ">>}

\* the concatenation of a sequence of texts
RECURSIVE Concat(_)
Concat(ss) == IF ss = <<>> THEN <<>> ELSE Head(ss) \o Concat(Tail(ss))

\* the sequences of at most n items
ItemSeqs(n) == UNION {[1..k -> Items] : k \in 0..n}

\* a payload: items in a row; or a fenced code span around them; or a
\* header block holding the first item, closed by a delimiter line
\* ("line") or by a delimiter that ends the item's own line ("tail")
Frames == {"plain", "fenced", "line", "tail"}

Payload(frame, items) ==
    CASE frame = "plain" -> Concat(items)
      [] frame = "fenced" -> Fence \o <<"\n">> \o Concat(items) \o <<"\n">> \o Fence
      [] frame = "line" ->
            Delim \o (IF items = <<>> THEN <<>> ELSE Head(items) \o <<"\n">>)
                  \o Delim \o (IF items = <<>> THEN <<>> ELSE Concat(Tail(items)))
      [] frame = "tail" ->
            Delim \o (IF items = <<>> THEN <<>> ELSE Head(items))
                  \o Delim \o (IF items = <<>> THEN <<>> ELSE Concat(Tail(items)))

Payloads == {Payload(f, is) : f \in Frames, is \in ItemSeqs(MaxItems)}

-----------------------------------------------------------------------------
(* The state machine: one backend instance over one corpus.  A content     *)
(* payload is passed through _auto_link_content by a write-path operation, *)
(* and what was written can be submitted again.                            *)

\* no operation under way, nothing written yet, nothing returned yet
NoOp == [name |-> "none", filepath |-> <<>>, operation |-> "none"]
NoWrite == [by |-> "none", filepath |-> <<>>, data |-> <<>>]
NoResult == [of |-> "none", value |-> {}, count |-> 0, before |-> <<>>]

Init ==
    /\ backend \in Backends
    /\ vault \in Vaults
    /\ cache = EmptyCache
    /\ inp \in Payloads
    /\ out = <<>>
    /\ pc = "ready"
    /\ pass = 0
    /\ notes = [p \in vault |-> <<>>]
    /\ op = NoOp
    /\ wrote = NoWrite
    /\ ret = NoResult
    /\ procs = NoProcs

\* content = self._auto_link_content(content), first line of put_content,
\* append_content and patch_content
AutoLink ==
    /\ pc = "ready"
    /\ \E r \in _auto_link_content(backend, cache, vault, inp) :
          /\ out' = r.t
          /\ cache' = r.c
    /\ pc' = "linked"
    /\ pass' = pass + 1
    /\ UNCHANGED <<backend, vault, inp, session, procs>>

\* the text a write produced is the payload of a later write
Resubmit ==
    /\ pc = "linked"
    /\ pass < MaxPasses
    /\ inp' = out
    /\ pc' = "ready"
    /\ UNCHANGED <<backend, vault, cache, out, pass, session, procs>>

Next == AutoLink \/ Resubmit

Spec == Init /\ [][Next]_vars

-----------------------------------------------------------------------------
(* What the properties speak of.                                           *)

\* re.findall(r'\[\[([^\]]+)\]\]', s): the contents of the References of s
RECURSIVE LinksFrom(_, _)
LinksFrom(s, i) ==
    IF i > Len(s) THEN {}
    ELSE LET j == LinkEnd(s, i) IN
         IF j # 0 THEN {SubSeq(s, i + 2, j - 1)} \cup LinksFrom(s, j + 2)
         ELSE LinksFrom(s, i + 1)

LinksOf(s) == LinksFrom(s, 1)

\* the References of a payload, found in its header and in its body as
\* _auto_link_content splits them
InputLinks(content) ==
    IF HasFrontmatter(content)
    THEN LinksOf(SplitDelim(content)[2]) \cup LinksOf(SplitDelim(content)[3])
    ELSE LinksOf(content)

\* the target and the display suffix of a Reference [[link]]
HasDisplay(link) == Contains(link, <<"|">>)
TargetOf(link) ==
    IF HasDisplay(link) THEN SubSeq(link, 1, Find(link, <<"|">>, 1) - 1) ELSE link
DisplayOf(link) == From(link, Find(link, <<"|">>, 1) + 1)

\* the target of [[link]] as the normalizer of backend b reads it
LinkPathOf(b, link) ==
    IF HasDisplay(link) /\ b = "api" THEN Strip(TargetOf(link)) ELSE TargetOf(link)

\* the resolution test of the Reference [[link]] fails
Unresolved(b, c, v, link) == ~ResolveLink(b, c, v, LinkPathOf(b, link)).hit

\* the Existence Index reports target t present, as a name or with .md
TargetExists(b, c, v, t) == ExistsAny(b, c, v, <<t, t \o Md>>).hit

\* the number of occurrences of the character ch in s
RECURSIVE CountChar(_, _)
CountChar(s, ch) ==
    IF s = <<>> THEN 0
    ELSE (IF Head(s) = ch THEN 1 ELSE 0) + CountChar(Tail(s), ch)

\* the number of occurrences of lit in s, left to right without overlap
RECURSIVE CountFrom(_, _, _)
CountFrom(s, lit, i) ==
    LET k == Find(s, lit, i) IN
    IF k = 0 THEN 0 ELSE 1 + CountFrom(s, lit, k + Len(lit))

\* s holds a [[ inside a Reference that is still open
Nested(s) ==
    \E i \in 1..Len(s), j \in 1..Len(s) :
        /\ j >= i + 2
        /\ MatchAt(s, i, Open)
        /\ MatchAt(s, j, Open)
        /\ \A k \in (i + 2)..(j - 1) : ~MatchAt(s, k, Close)
        /\ Find(s, Close, j + 2) # 0

\* a line that is exactly "---" starts at position k >= 5 of s
ClosingLineAt(s, k) ==
    /\ k >= 5
    /\ s[k - 1] = "\n"
    /\ MatchAt(s, k, <<"-", "-", "-">>)
    /\ (k + 3 > Len(s) \/ s[k + 3] = "\n")

\* s has a Header Block: its first line is exactly "---" and a later line
\* is exactly "---"
HeaderBlock(s) ==
    StartsWith(s, Delim) /\ \E k \in 5..Len(s) : ClosingLineAt(s, k)

\* the text between the delimiter lines of a Header Block
HeaderText(s) ==
    LET k == CHOOSE k \in 5..Len(s) :
                 ClosingLineAt(s, k) /\ \A m \in 5..(k - 1) : ~ClosingLineAt(s, m)
    IN SubSeq(s, 5, k - 1)

\* h cannot be a YAML key/value map: a mapping needs one of the
\* indicators ":", "{" or "?"
NotKeyValueMap(h) ==
    \A k \in 1..Len(h) : h[k] \notin {":", "{", "?"}

\* the texts the Mention Detector returns for the whole of s as a Body, on
\* a backend whose cache is still empty
BodyTexts(b, v, s) == {r.t : r \in _process_body_content(b, EmptyCache, v, s)}

\* a Reference to path p, with or without its extension, is in s verbatim
Referenced(s, p) ==
    Contains(s, Open \o p \o Close) \/ Contains(s, Open \o DropMd(p) \o Close)

\* no normalizer has anything to change in content: it has no Reference,
\* and its body has no candidate path
NothingToNormalize(b, content) ==
    /\ InputLinks(content) = {}
    /\ (IF b = "api" THEN Obsidian_potential_paths(SplitDelim(content)[3])
        ELSE GitHubBackend_potential_paths(SplitDelim(content)[3])) = {}

\* the first fenced code span of s, fences included: 0 if there is none
FenceOpen(s) == Find(s, Fence, 1)
FenceClose(s) == IF FenceOpen(s) = 0 THEN 0 ELSE Find(s, Fence, FenceOpen(s) + 3)

-----------------------------------------------------------------------------
(* The properties.                                                         *)

\* C1: rewrite is idempotent: a text that _auto_link_content returned is
\* returned unchanged when it is passed through _auto_link_content again.
Idempotent ==
    (pc = "linked" /\ pass >= 2) => out = inp

\* C2: every Reference of the output that was not in the input has a target
\* that the Existence Index reports present.  A Reference is a span with no
\* [[ inside it.
NewReferencesExist ==
    pc = "linked" =>
        \A link \in {l \in LinksOf(out) : ~Contains(l, Open)} \ InputLinks(inp) :
            TargetExists(backend, cache, vault, TargetOf(link))

\* C3: a Reference of the input whose resolution test fails appears in the
\* output character for character.
UnresolvedKept ==
    pc = "linked" =>
        \A link \in InputLinks(inp) :
            Unresolved(backend, cache, vault, link)
                => Contains(out, Open \o link \o Close)

\* C4: the display suffix of every Reference of the input, from its first
\* "|" to the closing delimiter, is in the output unchanged.
DisplayKept ==
    pc = "linked" =>
        \A link \in InputLinks(inp) :
            HasDisplay(link)
                => Contains(out, <<"|">> \o DisplayOf(link) \o Close)

\* C5: a fenced code span of the input, from its opening ``` to its
\* closing ```, is in the output unchanged.
FencedSpanKept ==
    (pc = "linked" /\ FenceClose(inp) # 0) =>
        Contains(out, SubSeq(inp, FenceOpen(inp), FenceClose(inp) + 2))

\* C6: header round-trip: a text in which _auto_link_content finds a header
\* is reproduced exactly by splitting it and reassembling the two parts;
\* and _auto_link_content returns it unchanged when neither normalizer has
\* anything to change.
HeaderRoundTrip ==
    HasFrontmatter(inp) =>
        /\ Reassemble(SplitDelim(inp)[2], SplitDelim(inp)[3]) = inp
        /\ (pc = "linked" /\ NothingToNormalize(backend, inp)) => out = inp

\* C6 witness: a text with a non-empty header and a non-empty body, in
\* which no normalizer has anything to change, went through
\* _auto_link_content and came out as it went in.
HeaderRoundTripWitness ==
    /\ pc = "linked"
    /\ HasFrontmatter(inp)
    /\ NothingToNormalize(backend, inp)
    /\ SplitDelim(inp)[2] # <<>>
    /\ SplitDelim(inp)[3] # <<>>
    /\ out = inp

\* C7: a text without a Header Block (no first line "---", or no later
\* line that is exactly "---") is processed as Body as a whole.
NoHeaderMeansBody ==
    (pc = "linked" /\ pass = 1 /\ ~HeaderBlock(inp)) =>
        out \in BodyTexts(backend, vault, inp)

\* C8: a text whose Header Block does not parse as a key/value map is
\* processed as Body as a whole.
MalformedHeaderMeansBody ==
    (pc = "linked" /\ pass = 1 /\ HeaderBlock(inp)
        /\ NotKeyValueMap(HeaderText(inp))) =>
        out \in BodyTexts(backend, vault, inp)

\* C9: in a body with at most 10 References, every quoted or back-quoted
\* occurrence of the path of an existing note is replaced by the canonical
\* Reference, quote characters included: no such occurrence is left, the
\* canonical Reference is there, and both quote characters are gone.  A
\* path that the Mention Detector may skip, because a Reference to it with
\* or without its extension is in the text, is set aside.
QuotedMentionsPromoted ==
    (pc = "linked" /\ pass = 1 /\ ~HasFrontmatter(inp)
        /\ CountLinksFrom(inp, 1) <= LinkThreshold) =>
        \A p \in vault, q \in {"\"", "'", BQ} :
            LET quoted == <<q>> \o p \o <<q>> IN
            (Contains(inp, quoted) /\ ~Referenced(inp, p) /\ ~Referenced(out, p)) =>
                /\ ~Contains(out, quoted)
                /\ Contains(out, _format_as_wiki_link(p))
                /\ CountChar(out, q) + 2 * CountFrom(inp, quoted, 1)
                       <= CountChar(inp, q)

\* C10: the output has no [[ nested inside a Reference, when the input had
\* none.
NoNestedReference ==
    (pc = "linked" /\ ~Nested(inp)) => ~Nested(out)

-----------------------------------------------------------------------------
(* Link-dense bodies: the threshold of the Mention Detector.               *)

MaxRefs == 12

\* n times the text item
RECURSIVE Repeat(_, _)
Repeat(item, n) == IF n = 0 THEN <<>> ELSE item \o Repeat(item, n - 1)

\* a body around the threshold: perhaps a Reference to the folder a/,
\* which the normalizer turns into [[]], no Reference any more; then from
\* LinkThreshold - 1 to MaxRefs times the same Reference; then perhaps a
\* Mention
ThresholdPayloads ==
    {pre \o Repeat(Open \o t \o Close, n) \o m :
        pre \in {<<>>, Open \o <<"a", "/">> \o Close},
        t \in {<<"b">>, PathAB, <<"z">>},
        n \in (LinkThreshold - 1)..MaxRefs,
        m \in MentionItems \cup {<<>>}}

ThresholdInit ==
    /\ backend \in Backends
    /\ vault \in Vaults
    /\ cache = EmptyCache
    /\ inp \in ThresholdPayloads
    /\ out = <<>>
    /\ pc = "ready"
    /\ pass = 0
    /\ notes = [p \in vault |-> <<>>]
    /\ op = NoOp
    /\ wrote = NoWrite
    /\ ret = NoResult
    /\ procs = NoProcs

ThresholdSpec == ThresholdInit /\ [][Next]_vars

\* the body inp once its References are normalized, on a backend whose
\* cache is still empty
NormalizedBody == NormalizeLinksFrom(backend, EmptyCache, vault, inp, 1, <<>>).t

\* C11: the threshold short-circuit: when the body, its References
\* normalized, has more than 10 References, the output is that normalized
\* body, with no Reference added; when it has 10 or fewer, a double-quoted
\* path of an existing note that is not yet referenced is promoted.
ThresholdRule ==
    (pc = "linked" /\ pass = 1 /\ ~HasFrontmatter(inp)) =>
        /\ CountLinksFrom(NormalizedBody, 1) > 10 => out = NormalizedBody
        /\ CountLinksFrom(NormalizedBody, 1) <= 10 =>
              \A p \in vault :
                  LET quoted == <<"\"">> \o p \o <<"\"">> IN
                  (Contains(NormalizedBody, quoted) /\ ~Referenced(NormalizedBody, p)) =>
                      /\ ~Contains(out, quoted)
                      /\ Contains(out, _format_as_wiki_link(p))
                      /\ CountLinksFrom(out, 1) > CountLinksFrom(NormalizedBody, 1)

\* C11 witness: a body of 11 References and a quoted path of an existing
\* note came out with its References normalized and the path still quoted.
ThresholdWitness ==
    /\ pc = "linked"
    /\ pass = 1
    /\ CountLinksFrom(NormalizedBody, 1) = 11
    /\ Contains(inp, <<"\"">> \o PathAB \o <<"\"">>)
    /\ Contains(out, <<"\"">> \o PathAB \o <<"\"">>)
    /\ out = NormalizedBody
    /\ out # inp

\* C11 witness at the threshold: a body of exactly 10 References after
\* normalization, 11 before, had its quoted path promoted.
ThresholdWitnessAtTen ==
    /\ pc = "linked"
    /\ pass = 1
    /\ CountLinksFrom(inp, 1) = 11
    /\ CountLinksFrom(NormalizedBody, 1) = 10
    /\ Contains(inp, <<"\"">> \o PathAB \o <<"\"">>)
    /\ ~Contains(out, <<"\"">> \o PathAB \o <<"\"">>)


-----------------------------------------------------------------------------
(* The iteration order of the candidate set.                               *)

\* the texts the rewrite of a payload can return, one per iteration order
\* of set(potential_paths)
RewriteTexts(b, c, v, content) == {r.t : r \in _auto_link_content(b, c, v, content)}

\* C12: the rewrite of a payload over a fixed corpus returns one text,
\* whatever the order in which the candidate set is iterated, also when one
\* candidate is a substring of another
OrderIndependent ==
    pc = "ready" => Cardinality(RewriteTexts(backend, cache, vault, inp)) = 1


-----------------------------------------------------------------------------
(* A session: one backend instance, created with an empty cache, serves    *)
(* write-path operations and deletions one after the other.  A write-path  *)
(* operation is entered (Call), rewrites its content payload (Rewrite) and *)
(* then persists it: class Obsidian sends one request to the Local REST    *)
(* API, class GitHubBackend writes the file.  The server behind the API is *)
(* outside the repository: a PUT creates or overwrites the note, a POST    *)
(* appends to it, a PATCH inserts into an existing note, a DELETE removes  *)
(* it.                                                                     *)

MaxOps == 2

SessionPaths == {PathAB, PathB}

\* a double-quoted Mention of each path, and a text without any
SessionPayloads ==
    {<<"\"">> \o p \o <<"\"">> : p \in SessionPaths} \cup {<<"x">>}

\* an empty vault, and a vault with one note
SessionCorpora == {<<>>, PathAB :> <<"x">>}

WriteOps == {"put_content", "append_content", "patch_content"}

Operations(name) ==
    IF name = "patch_content" THEN {"append", "prepend"} ELSE {"none"}

SessionInit ==
    /\ backend \in Backends
    /\ notes \in SessionCorpora
    /\ vault = DOMAIN notes
    /\ cache = EmptyCache
    /\ inp = <<>>
    /\ out = <<>>
    /\ pc = "idle"
    /\ pass = 0
    /\ op = NoOp
    /\ wrote = NoWrite
    /\ ret = NoResult
    /\ procs = NoProcs

\* put_content, append_content or patch_content is entered with a filepath
\* and a content payload
Call ==
    /\ pc = "idle"
    /\ pass < MaxOps
    /\ \E name \in WriteOps, filepath \in SessionPaths, content \in SessionPayloads :
          \E operation \in Operations(name) :
             /\ op' = [name |-> name, filepath |-> filepath, operation |-> operation]
             /\ inp' = content
    /\ out' = <<>>
    /\ pc' = "called"
    /\ pass' = pass + 1
    /\ UNCHANGED <<backend, vault, cache, notes, wrote, ret, procs>>

\* content = self._auto_link_content(content)
Rewrite ==
    /\ pc = "called"
    /\ \E r \in _auto_link_content(backend, cache, vault, inp) :
          /\ out' = r.t
          /\ cache' = r.c
    /\ pc' = "rewritten"
    /\ UNCHANGED <<backend, vault, inp, pass, notes, op, wrote, ret, procs>>

\* a payload that is persisted as it came in
WrittenPayload_raw(content, linked) == content

\* the content the persistence step sees: the name content was rebound to
\* the result of _auto_link_content
WrittenPayload(content, linked) == linked

\* requests.post, requests.patch and requests.put of the three operations
Method(name) ==
    CASE name = "append_content" -> "POST"
      [] name = "patch_content" -> "PATCH"
      [] name = "put_content" -> "PUT"

Without(ns, filepath) == [p \in DOMAIN ns \ {filepath} |-> ns[p]]

Existing(ns, filepath) == IF filepath \in DOMAIN ns THEN ns[filepath] ELSE <<>>

\* the notes of the server once it has served a request
ServerApply(ns, method, filepath, operation, data) ==
    CASE method = "PUT" -> (filepath :> data) @@ ns
      [] method = "POST" -> (filepath :> (Existing(ns, filepath) \o data)) @@ ns
      [] method = "PATCH" ->
            IF filepath \notin DOMAIN ns THEN ns
            ELSE IF operation = "prepend"
                 THEN (filepath :> (data \o ns[filepath])) @@ ns
                 ELSE (filepath :> (ns[filepath] \o data)) @@ ns
      [] method = "DELETE" -> Without(ns, filepath)

\* class Obsidian: the request of append_content, patch_content, put_content
Obsidian_request ==
    /\ pc = "rewritten"
    /\ backend = "api"
    /\ wrote' = [by |-> Method(op.name), filepath |-> op.filepath,
                 data |-> WrittenPayload(inp, out)]
    /\ notes' = ServerApply(notes, Method(op.name), op.filepath, op.operation,
                            WrittenPayload(inp, out))
    /\ vault' = DOMAIN notes'
    /\ op' = NoOp
    /\ pc' = "idle"
    /\ UNCHANGED <<backend, cache, inp, out, pass, ret, procs>>

\* class GitHubBackend: new_content of put_content, append_content and
\* patch_content
NewContent(ns, o, content) ==
    CASE o.name = "put_content" -> content
      [] o.name = "append_content" ->
            IF o.filepath \in DOMAIN ns
            THEN ns[o.filepath] \o <<"\n">> \o content
            ELSE content
      [] o.name = "patch_content" ->
            IF o.operation = "prepend"
            THEN content \o <<"\n">> \o ns[o.filepath]
            ELSE ns[o.filepath] \o <<"\n">> \o content

\* class GitHubBackend: self._write_file(filepath, new_content); the
\* _read_file of patch_content raises when the file is missing
GitHubBackend_write ==
    /\ pc = "rewritten"
    /\ backend = "fs"
    /\ IF op.name = "patch_content" /\ op.filepath \notin DOMAIN notes
       THEN UNCHANGED <<notes, vault, wrote>>
       ELSE /\ wrote' = [by |-> op.name, filepath |-> op.filepath,
                         data |-> NewContent(notes, op, WrittenPayload(inp, out))]
            /\ notes' = (op.filepath :> wrote'.data) @@ notes
            /\ vault' = DOMAIN notes'
    /\ op' = NoOp
    /\ pc' = "idle"
    /\ UNCHANGED <<backend, cache, inp, out, pass, ret, procs>>

\* delete_file: a DELETE request, or unlink when the file exists
delete_file ==
    /\ pc = "idle"
    /\ pass < MaxOps
    /\ \E filepath \in SessionPaths :
          /\ notes' = Without(notes, filepath)
          /\ wrote' = IF backend = "api" \/ filepath \in DOMAIN notes
                      THEN [by |-> "DELETE", filepath |-> filepath, data |-> <<>>]
                      ELSE wrote
    /\ vault' = DOMAIN notes'
    /\ pass' = pass + 1
    /\ UNCHANGED <<backend, cache, inp, out, pc, op, ret, procs>>

SessionNext ==
    Call \/ Rewrite \/ Obsidian_request \/ GitHubBackend_write \/ delete_file

SessionSpec == SessionInit /\ [][SessionNext]_vars


\* what a persistence step may hand over when it runs in the current state:
\* the rewrite of the payload inp, joined by GitHubBackend with the text the
\* file has
Persistable ==
    {IF backend = "api" THEN t ELSE NewContent(notes, op, t) :
        t \in RewriteTexts(backend, cache, vault, inp)}

ExistsNow(b, v, filepath) == _file_exists_in_vault(b, EmptyCache, v, filepath).hit

\* C14: within a session the rewrite of a double-quoted Mention of a path
\* follows the corpus as it is now: the Mention is promoted when the note
\* exists, also when it was created after the path was first asked, and it
\* is left alone when the note does not exist, also when it was deleted
\* after the path was first asked
NoStaleAnswer ==
    pc = "rewritten" =>
        \A p \in SessionPaths :
            inp = <<"\"">> \o p \o <<"\"">> =>
                (out = _format_as_wiki_link(p) <=> ExistsNow(backend, vault, p))


\* C15: the cache of a backend instance is empty when the instance is
\* created; no step removes an entry or changes a cached answer; and a path
\* that is in the cache is answered with the cached answer, the cache left
\* as it is, whatever the backend would answer now
CacheGrowsOnly ==
    /\ cache = EmptyCache
    /\ [][\A p \in DOMAIN cache : p \in DOMAIN cache' /\ cache'[p] = cache[p]]_vars
    /\ [](\A p \in DOMAIN cache :
             _file_exists_in_vault(backend, cache, vault, p)
                 = [hit |-> cache[p], c |-> cache])

\* a second rewrite asked for a path whose cached answer the corpus no
\* longer agrees with
CacheGrowsOnlyWitness ==
    /\ pc = "rewritten"
    /\ pass = 2
    /\ \E p \in DOMAIN cache :
          /\ inp = <<"\"">> \o p \o <<"\"">>
          /\ cache[p] # ExistsNow(backend, vault, p)


-----------------------------------------------------------------------------
(* Two rewrites at the same time on the one backend instance get_backend   *)
(* hands out, over a corpus that does not change.  An invocation keeps the *)
(* answers it has got so far (known); the shared cache is read and written *)
(* one dictionary operation at a time.  The order in which a rewrite asks  *)
(* for its paths is left open: it may ask next for any path its run would  *)
(* ask for given the answers it has.                                       *)

Invocations == {1, 2}

ConcurrentCorpora == Vaults

\* payloads with one and with two Mentions, and with a Reference by path
ConcurrentPayloads ==
    {<<"\"">> \o PathB \o <<"\"">>,
     <<"\"">> \o PathAB \o <<"\"", "\"">> \o PathB \o <<"\"">>,
     Open \o PathAB \o Close}

ConcurrentInit ==
    /\ backend \in Backends
    /\ vault \in ConcurrentCorpora
    /\ cache = EmptyCache
    /\ inp = <<>>
    /\ out = <<>>
    /\ pc = "concurrent"
    /\ pass = 0
    /\ notes = [p \in vault |-> <<>>]
    /\ op = NoOp
    /\ wrote = NoWrite
    /\ ret = NoResult
    /\ procs \in [Invocations ->
                    {[content |-> c, known |-> EmptyCache, at |-> "run",
                      filepath |-> <<>>, found |-> FALSE, looked |-> {},
                      text |-> <<>>] : c \in ConcurrentPayloads}]

\* the answer the backend gives for a path
Lookup(b, v, filepath) ==
    IF b = "api" THEN Obsidian_lookup(v, filepath)
    ELSE GitHubBackend_lookup(v, filepath)

\* a cache write that records the path as missing whatever was found
Stored_missing(c, filepath, r) == (filepath :> FALSE) @@ c

\* self._file_existence_cache[filepath] = r
Stored(c, filepath, r) == (filepath :> r) @@ c

\* _file_exists_in_vault is entered for a path the answers got so far do
\* not cover:  if filepath in self._file_existence_cache
Check(i) ==
    /\ procs[i].at = "run"
    /\ \E r \in _auto_link_content(backend, procs[i].known, vault, procs[i].content) :
          \E filepath \in DOMAIN r.c \ DOMAIN procs[i].known :
             procs' = [procs EXCEPT ![i].filepath = filepath,
                                    ![i].at = IF filepath \in DOMAIN cache
                                              THEN "hit" ELSE "miss"]
    /\ UNCHANGED <<backend, vault, cache, inp, out, pc, pass, session>>

\* return self._file_existence_cache[filepath]
ReadCache(i) ==
    /\ procs[i].at = "hit"
    /\ procs' = [procs EXCEPT
                    ![i].known = (procs[i].filepath :> cache[procs[i].filepath]) @@ @,
                    ![i].at = "run"]
    /\ UNCHANGED <<backend, vault, cache, inp, out, pc, pass, session>>

\* the read of the backend: file_path.exists() and the search by name, or
\* self.get_file_contents(filepath)
ReadBackend(i) ==
    /\ procs[i].at = "miss"
    /\ procs' = [procs EXCEPT
                    ![i].found = Lookup(backend, vault, procs[i].filepath),
                    ![i].looked = @ \cup {procs[i].filepath},
                    ![i].at = "store"]
    /\ UNCHANGED <<backend, vault, cache, inp, out, pc, pass, session>>

\* self._file_existence_cache[filepath] = found; return found
WriteCache(i) ==
    /\ procs[i].at = "store"
    /\ cache' = Stored(cache, procs[i].filepath, procs[i].found)
    /\ procs' = [procs EXCEPT
                    ![i].known = (procs[i].filepath :> procs[i].found) @@ @,
                    ![i].at = "run"]
    /\ UNCHANGED <<backend, vault, inp, out, pc, pass, session>>

\* the rewrite returns: every path it asks for has been answered
Return(i) ==
    /\ procs[i].at = "run"
    /\ \E r \in _auto_link_content(backend, procs[i].known, vault, procs[i].content) :
          /\ DOMAIN r.c = DOMAIN procs[i].known
          /\ procs' = [procs EXCEPT ![i].text = r.t, ![i].at = "done"]
    /\ UNCHANGED <<backend, vault, cache, inp, out, pc, pass, session>>

ConcurrentNext ==
    \E i \in Invocations :
        Check(i) \/ ReadCache(i) \/ ReadBackend(i) \/ WriteCache(i) \/ Return(i)

ConcurrentSpec == ConcurrentInit /\ [][ConcurrentNext]_vars

\* C16: in every interleaving of two rewrites that share the cache over a
\* fixed corpus, each cached entry is the true existence of its path, and
\* an invocation that has returned has returned a text it returns when it
\* runs alone on a fresh instance
RaceIsBenign ==
    pc = "concurrent" =>
        /\ \A p \in DOMAIN cache : cache[p] = Lookup(backend, vault, p)
        /\ \A i \in Invocations :
              procs[i].at = "done" =>
                  procs[i].text \in RewriteTexts(backend, EmptyCache, vault,
                                                 procs[i].content)

\* both invocations have returned, both have read the backend for the same
\* path, and one of them changed its payload
RaceIsBenignWitness ==
    /\ pc = "concurrent"
    /\ \A i \in Invocations : procs[i].at = "done"
    /\ procs[1].looked \cap procs[2].looked # {}
    /\ procs[1].text # procs[1].content
    /\ \E p \in DOMAIN cache : cache[p]


-----------------------------------------------------------------------------
(* Link operations: get_backlinks and update_links of the two backends.    *)
(* The search of class Obsidian is answered by the server behind the API,  *)
(* which is outside the repository: it returns the notes whose text has    *)
(* the query in it.                                                        *)

\* the first position >= i of s whose character is in stops, Len(s) + 1 if
\* there is none: where a run [^...]* that starts at i ends
RECURSIVE RunUntil(_, _, _)
RunUntil(s, i, stops) ==
    IF i > Len(s) THEN i
    ELSE IF s[i] \in stops THEN i
    ELSE RunUntil(s, i + 1, stops)

\* the position of the last "." of s at or before i, 0 if there is none
RECURSIVE LastDot(_, _)
LastDot(s, i) ==
    IF i = 0 THEN 0 ELSE IF s[i] = "." THEN i ELSE LastDot(s, i - 1)

\* filename.rsplit('.', 1)[0]
RSplitDot(s) ==
    IF LastDot(s, Len(s)) = 0 THEN s ELSE SubSeq(s, 1, LastDot(s, Len(s)) - 1)

\* class Obsidian, get_backlinks: basename
Obsidian_basename(filepath) ==
    IF Contains(LastSegment(filepath), <<".">>)
    THEN RSplitDot(LastSegment(filepath))
    ELSE LastSegment(filepath)

\* class Obsidian, update_links: old_basename and new_basename
Obsidian_link_basename(path) ==
    IF Contains(path, <<".">>) THEN RSplitDot(LastSegment(path))
    ELSE LastSegment(path)

\* where the match of \[\[([^\]|]+)(?:\|[^\]]+)?\]\] that starts at i ends
\* (the position of its last "]"), 0 if there is no match at i
WikiEnd(s, i) ==
    IF ~MatchAt(s, i, Open) THEN 0
    ELSE LET j == RunUntil(s, i + 2, {"]", "|"}) IN
         IF j = i + 2 \/ j > Len(s) THEN 0
         ELSE IF s[j] = "]" THEN (IF MatchAt(s, j, Close) THEN j + 1 ELSE 0)
         ELSE LET k == RunUntil(s, j + 1, {"]"}) IN
              IF k > j + 1 /\ MatchAt(s, k, Close) THEN k + 1 ELSE 0

\* re.findall(wiki_pattern, content), from position i: the link targets
RECURSIVE WikiLinksFrom(_, _)
WikiLinksFrom(s, i) ==
    IF i > Len(s) THEN {}
    ELSE IF WikiEnd(s, i) # 0
         THEN {SubSeq(s, i + 2, RunUntil(s, i + 2, {"]", "|"}) - 1)}
                  \cup WikiLinksFrom(s, WikiEnd(s, i) + 1)
    ELSE WikiLinksFrom(s, i + 1)

\* where the match of \[([^\]]+)\]\(([^\)]+)\) that starts at i ends (the
\* position of its ")"), 0 if there is no match at i
MdLinkEnd(s, i) ==
    IF ~MatchAt(s, i, <<"[">>) THEN 0
    ELSE LET j == RunUntil(s, i + 1, {"]"}) IN
         IF j = i + 1 \/ ~MatchAt(s, j, <<"]", "(">>) THEN 0
         ELSE LET k == RunUntil(s, j + 2, {")"}) IN
              IF k > j + 2 /\ k <= Len(s) THEN k ELSE 0

\* the urls of re.findall(md_pattern, content) that do not start with http
RECURSIVE MdLinksFrom(_, _)
MdLinksFrom(s, i) ==
    IF i > Len(s) THEN {}
    ELSE IF MdLinkEnd(s, i) # 0
         THEN (LET url == SubSeq(s, RunUntil(s, i + 1, {"]"}) + 2, MdLinkEnd(s, i) - 1) IN
               IF StartsWith(url, <<"h", "t", "t", "p">>) THEN {} ELSE {url})
                  \cup MdLinksFrom(s, MdLinkEnd(s, i) + 1)
    ELSE MdLinksFrom(s, i + 1)

\* class Obsidian, get_links_in_file: wiki_links + markdown_links
Obsidian_get_links_in_file(content) ==
    WikiLinksFrom(content, 1) \cup MdLinksFrom(content, 1)

\* the filenames of the results of POST /search/simple/ for a query
ServerSearch(ns, query) == {f \in DOMAIN ns : Contains(ns[f], query)}

\* class Obsidian, get_backlinks
Obsidian_get_backlinks(ns, filepath) ==
    {ref_file \in ServerSearch(ns, Obsidian_basename(filepath)) :
        /\ ref_file # <<>>
        /\ ref_file # filepath
        /\ \E link \in Obsidian_get_links_in_file(ns[ref_file]) :
              \/ Contains(link, Obsidian_basename(filepath))
              \/ Contains(link, filepath)}

\* class GitHubBackend, get_backlinks
GitHubBackend_get_backlinks(ns, filepath) ==
    {f \in GitHubBackend_list_markdown_files(DOMAIN ns) :
        \/ Contains(ns[f], Open \o PathStem(filepath) \o Close)
        \/ Contains(ns[f], Open \o filepath \o Close)}

\* re.sub(r'\[\[' + re.escape(old) + r'(\|[^\]]+)?\]\]', '[[new\1]]', s),
\* from position i
RECURSIVE SubWikiFrom(_, _, _, _)
SubWikiFrom(s, old, new, i) ==
    IF i > Len(s) THEN <<>>
    ELSE LET j == i + 2 + Len(old)
             k == RunUntil(s, j + 1, {"]"})
         IN  IF MatchAt(s, i, Open \o old) /\ MatchAt(s, j, Close)
             THEN Open \o new \o Close \o SubWikiFrom(s, old, new, j + 2)
             ELSE IF /\ MatchAt(s, i, Open \o old) /\ MatchAt(s, j, <<"|">>)
                     /\ k > j + 1 /\ MatchAt(s, k, Close)
             THEN Open \o new \o SubSeq(s, j, k - 1) \o Close
                      \o SubWikiFrom(s, old, new, k + 2)
             ELSE <<s[i]>> \o SubWikiFrom(s, old, new, i + 1)

\* re.sub(r'\[([^\]]+)\]\(' + re.escape(old_path) + r'\)', '[\1](new_path)', s),
\* from position i
RECURSIVE SubMdFrom(_, _, _, _)
SubMdFrom(s, old_path, new_path, i) ==
    IF i > Len(s) THEN <<>>
    ELSE LET j == RunUntil(s, i + 1, {"]"}) IN
         IF /\ MatchAt(s, i, <<"[">>) /\ j > i + 1
            /\ MatchAt(s, j, <<"]", "(">> \o old_path \o <<")">>)
         THEN SubSeq(s, i, j + 1) \o new_path \o <<")">>
                  \o SubMdFrom(s, old_path, new_path, j + 3 + Len(old_path))
         ELSE <<s[i]>> \o SubMdFrom(s, old_path, new_path, i + 1)

\* class Obsidian, update_links: the content of a backlinking note after
\* the two substitutions
Obsidian_updated(content, old_path, new_path) ==
    SubMdFrom(SubWikiFrom(content, Obsidian_link_basename(old_path),
                          Obsidian_link_basename(new_path), 1),
              old_path, new_path, 1)

\* class Obsidian, update_links: the loop over the backlinks in the order
\* given, each note put back through put_content; every outcome (notes,
\* cache, updated_count) it can have
RECURSIVE Obsidian_update_each(_, _, _, _, _)

\* the rest of the loop after put_content of the first backlink, r being
\* the outcome of its rewrite
Obsidian_update_rest(ns, r, old_path, new_path, order) ==
    {[ns |-> x.ns, c |-> x.c, count |-> x.count + 1] :
        x \in Obsidian_update_each((Head(order) :> r.t) @@ ns, r.c,
                                   old_path, new_path, Tail(order))}

Obsidian_update_each(ns, c, old_path, new_path, order) ==
    IF order = <<>> THEN {[ns |-> ns, c |-> c, count |-> 0]}
    ELSE UNION {Obsidian_update_rest(ns, r, old_path, new_path, order) :
                   r \in _auto_link_content("api", c, DOMAIN ns,
                             Obsidian_updated(ns[Head(order)], old_path, new_path))}

\* class Obsidian, update_links
Obsidian_update_links(ns, c, old_path, new_path) ==
    UNION {Obsidian_update_each(ns, c, old_path, new_path, order) :
              order \in Orders(Obsidian_get_backlinks(ns, old_path))}

\* class GitHubBackend, update_links: the files it rewrites
GitHubBackend_linking(ns, old_path) ==
    {f \in GitHubBackend_list_markdown_files(DOMAIN ns) :
        \/ Contains(ns[f], Open \o PathStem(old_path) \o Close)
        \/ Contains(ns[f], Open \o old_path \o Close)}

\* class GitHubBackend, update_links: new_content of a file
GitHubBackend_updated(content, old_path, new_path) ==
    ReplaceAll(ReplaceAll(content, Open \o PathStem(old_path) \o Close,
                          Open \o PathStem(new_path) \o Close),
               Open \o old_path \o Close, Open \o new_path \o Close)

\* class GitHubBackend, update_links
GitHubBackend_update_links(ns, c, old_path, new_path) ==
    {[ns |-> [f \in DOMAIN ns |->
                 IF f \in GitHubBackend_linking(ns, old_path)
                 THEN GitHubBackend_updated(ns[f], old_path, new_path)
                 ELSE ns[f]],
      c |-> c,
      count |-> Cardinality(GitHubBackend_linking(ns, old_path))]}

PathC == <<"c", ".", "m", "d">>
PathN == <<"n", ".", "m", "d">>
PathM == <<"m", ".", "m", "d">>

\* a rename to another name, and a move that keeps the name
Renames == {<<PathB, PathC>>, <<PathAB, PathB>>}

\* the renamed note still at its old path, or already at its new path
RenamedAt == {PathB, PathC, PathAB}

\* the texts of the notes: a Reference to b, with and without a display
\* suffix, a Reference to another note whose name has b in it, the bare
\* name as plain text, a Reference to b next to a double-quoted Mention
LinkTexts ==
    {Open \o <<"b">> \o Close, Open \o <<"b", "|", "x">> \o Close,
     Open \o <<"b", "z">> \o Close, <<"b">>,
     Open \o <<"b">> \o Close \o <<"\"">> \o PathM \o <<"\"">>}

LinkCorpora ==
    {(r :> t1) @@ (PathN :> t2) @@ (PathM :> t3) :
        r \in RenamedAt, t1 \in LinkTexts, t2 \in LinkTexts, t3 \in LinkTexts}

LinkInit ==
    /\ backend \in Backends
    /\ notes \in LinkCorpora
    /\ vault = DOMAIN notes
    /\ cache = EmptyCache
    /\ inp = <<>>
    /\ out = <<>>
    /\ pc = "links"
    /\ pass = 0
    /\ op = NoOp
    /\ wrote = NoWrite
    /\ ret = NoResult
    /\ procs = NoProcs

\* get_backlinks(filepath) returns
get_backlinks ==
    /\ pc = "links"
    /\ pass < MaxOps
    /\ \E filepath \in {PathB, PathAB} :
          /\ op' = [name |-> "get_backlinks", filepath |-> filepath]
          /\ ret' = [of |-> "get_backlinks",
                     value |-> IF backend = "api"
                               THEN Obsidian_get_backlinks(notes, filepath)
                               ELSE GitHubBackend_get_backlinks(notes, filepath),
                     count |-> 0, before |-> notes]
    /\ pass' = pass + 1
    /\ UNCHANGED <<backend, vault, cache, inp, out, pc, notes, wrote, procs>>

\* update_links(old_path, new_path) returns
update_links ==
    /\ pc = "links"
    /\ pass < MaxOps
    /\ \E rename \in Renames :
          /\ op' = [name |-> "update_links", old_path |-> rename[1],
                    new_path |-> rename[2]]
          /\ \E r \in (IF backend = "api"
                       THEN Obsidian_update_links(notes, cache, rename[1], rename[2])
                       ELSE GitHubBackend_update_links(notes, cache, rename[1], rename[2])) :
                /\ notes' = r.ns
                /\ cache' = r.c
                /\ ret' = [of |-> "update_links", value |-> {},
                           count |-> r.count, before |-> notes]
    /\ pass' = pass + 1
    /\ UNCHANGED <<backend, vault, inp, out, pc, wrote, procs>>

LinkNext == get_backlinks \/ update_links

LinkSpec == LinkInit /\ [][LinkNext]_vars


\* the References of the text s whose target is the bare name of path p or
\* the path p itself
ReferencesTo(s, p) ==
    {link \in LinksOf(s) : TargetOf(link) \in {PathStem(p), p}}

\* the References of the text s whose target is the bare name
ReferencesToName(s, name) == {link \in LinksOf(s) : TargetOf(link) = name}

\* the display suffix of a Reference, with its bar, empty if it has none
SuffixOf(link) == IF HasDisplay(link) THEN <<"|">> \o DisplayOf(link) ELSE <<>>

\* the notes whose text a call of update_links changed
Modified == {f \in DOMAIN notes : notes[f] # ret.before[f]}

\* C17: every note get_backlinks returns contains a Reference whose target
\* is the bare name or the path of the note asked for
OnlyRealBacklinks ==
    (pc = "links" /\ ret.of = "get_backlinks") =>
        \A f \in ret.value : ReferencesTo(ret.before[f], op.filepath) # {}

\* C18: after update_links to a different bare name, every note other than
\* the renamed one has no Reference to the old bare name left, and has for
\* each one it had a Reference to the new bare name with the same display
\* suffix
LinksPropagated ==
    (/\ pc = "links" /\ ret.of = "update_links"
     /\ PathStem(op.old_path) # PathStem(op.new_path)) =>
        \A f \in DOMAIN notes \ {op.old_path, op.new_path} :
            /\ ReferencesToName(notes[f], PathStem(op.old_path)) = {}
            /\ \A link \in ReferencesToName(ret.before[f], PathStem(op.old_path)) :
                  PathStem(op.new_path) \o SuffixOf(link) \in LinksOf(notes[f])

\* C19: the number update_links returns is the number of notes whose text
\* it changed
CountIsModified ==
    (pc = "links" /\ ret.of = "update_links") => ret.count = Cardinality(Modified)

\* C20: update_links leaves the text of the renamed note as it was, be the
\* note at the old path or at the new path
RenamedNoteUntouched ==
    (pc = "links" /\ ret.of = "update_links") =>
        \A f \in {op.old_path, op.new_path} \cap DOMAIN notes :
            notes[f] = ret.before[f]


-----------------------------------------------------------------------------
(* Read operations: get_links_in_file and get_batch_file_contents of the   *)
(* two backends.                                                           *)

\* re.findall(r'\[\[([^\]|]+)(?:\|[^\]]+)?\]\]', s), from position i: the
\* list of the link targets
RECURSIVE WikiLinkSeqFrom(_, _)
WikiLinkSeqFrom(s, i) ==
    IF i > Len(s) THEN <<>>
    ELSE IF WikiEnd(s, i) # 0
         THEN <<SubSeq(s, i + 2, RunUntil(s, i + 2, {"]", "|"}) - 1)>>
                  \o WikiLinkSeqFrom(s, WikiEnd(s, i) + 1)
    ELSE WikiLinkSeqFrom(s, i + 1)

\* re.findall(r'\[\[([^\]]+)\]\]', s), from position i: the list of the
\* link contents
RECURSIVE LinkSeqFrom(_, _)
LinkSeqFrom(s, i) ==
    IF i > Len(s) THEN <<>>
    ELSE IF LinkEnd(s, i) # 0
         THEN <<SubSeq(s, i + 2, LinkEnd(s, i) - 1)>> \o LinkSeqFrom(s, LinkEnd(s, i) + 2)
    ELSE LinkSeqFrom(s, i + 1)

\* the urls of re.findall(r'\[([^\]]+)\]\(([^\)]+)\)', s), from position i
RECURSIVE MdUrlSeqFrom(_, _)
MdUrlSeqFrom(s, i) ==
    IF i > Len(s) THEN <<>>
    ELSE IF MdLinkEnd(s, i) # 0
         THEN <<SubSeq(s, RunUntil(s, i + 1, {"]"}) + 2, MdLinkEnd(s, i) - 1)>>
                  \o MdUrlSeqFrom(s, MdLinkEnd(s, i) + 1)
    ELSE MdUrlSeqFrom(s, i + 1)

\* url.startswith('http')
StartsWithHttp(url) == StartsWith(url, <<"h", "t", "t", "p">>)
NotStartsWithHttp(url) == ~StartsWithHttp(url)

\* class Obsidian, get_links_in_file: (wiki_links, markdown_links)
Obsidian_links(content) ==
    <<WikiLinkSeqFrom(content, 1),
      SelectSeq(MdUrlSeqFrom(content, 1), NotStartsWithHttp)>>

\* class GitHubBackend, get_links_in_file: (internal, external)
GitHubBackend_links(content) ==
    <<LinkSeqFrom(content, 1),
      SelectSeq(MdUrlSeqFrom(content, 1), StartsWithHttp)>>


\* f"# {filepath}\n\n{body}\n\n---\n\n"
Section(filepath, body) ==
    <<"#", " ">> \o filepath \o <<"\n", "\n">> \o body
        \o <<"\n", "\n", "-", "-", "-", "\n", "\n">>

\* str(e) of the exception get_file_contents raises for a missing note:
\* class Obsidian passes on the error of the server (here its code),
\* GitHubBackend the FileNotFoundError of _read_file
ErrorText(b, filepath) ==
    IF b = "api" THEN <<"E", "r", "r", "o", "r", " ", "4", "0", "4">>
    ELSE <<"F", "i", "l", "e", " ", "n", "o", "t", " ", "f", "o", "u", "n", "d", ":", " ">> \o filepath

\* the body of the section of a path: the content of the note, or the
\* error text when the read raises
SectionBody(b, ns, filepath) ==
    IF filepath \in DOMAIN ns THEN ns[filepath]
    ELSE IF b = "api" THEN <<"E", "r", "r", "o", "r", " ", "r", "e", "a", "d", "i", "n", "g", " ", "f", "i", "l", "e", ":", " ">> \o ErrorText(b, filepath)
    ELSE <<"E", "r", "r", "o", "r", ":", " ">> \o ErrorText(b, filepath)

\* a batch read that ends at the first path it cannot read
RECURSIVE get_batch_file_contents_until_error(_, _, _)
get_batch_file_contents_until_error(b, ns, filepaths) ==
    IF filepaths = <<>> THEN <<>>
    ELSE IF Head(filepaths) \notin DOMAIN ns THEN <<>>
    ELSE Section(Head(filepaths), SectionBody(b, ns, Head(filepaths)))
             \o get_batch_file_contents_until_error(b, ns, Tail(filepaths))

\* get_batch_file_contents: "".join(result)
RECURSIVE get_batch_file_contents_of(_, _, _)
get_batch_file_contents_of(b, ns, filepaths) ==
    IF filepaths = <<>> THEN <<>>
    ELSE Section(Head(filepaths), SectionBody(b, ns, Head(filepaths)))
             \o get_batch_file_contents_of(b, ns, Tail(filepaths))

MaxBatch == 2

PathZ == <<"z", ".", "m", "d">>

\* the lists of paths a batch read is asked for, a path that is not in the
\* vault among them
RECURSIVE BatchRequests(_)
BatchRequests(n) ==
    IF n = 0 THEN {<<>>}
    ELSE BatchRequests(n - 1)
             \cup {<<p>> \o r : p \in {PathB, PathN, PathZ},
                               r \in {q \in BatchRequests(n - 1) : Len(q) = n - 1}}

\* the texts of the notes: References, one of them twice, a relative and
\* an http bracketed-URL link, a relative link to a note named http.md
ReadTexts ==
    {<<"[", "[", "b", "]", "]", "[", "t", "]", "(", "c", ".", "m", "d", ")">>,
     <<"[", "u", "]", "(", "h", "t", "t", "p", ":", "/", "/", "e", ")", "[", "[", "b", "|", "x", "]", "]", "[", "[", "b", "]", "]">>,
     <<"[", "[", "n", "]", "]", "[", "[", "b", "]", "]", "[", "[", "n", "]", "]">>,
     <<"[", "t", "]", "(", "h", "t", "t", "p", ".", "m", "d", ")">>,
     <<"x">>}

ReadCorpora == {(PathB :> t1) @@ (PathN :> t2) : t1 \in ReadTexts, t2 \in ReadTexts}

ReadInit ==
    /\ backend \in Backends
    /\ notes \in ReadCorpora
    /\ vault = DOMAIN notes
    /\ cache = EmptyCache
    /\ inp = <<>>
    /\ out = <<>>
    /\ pc = "reads"
    /\ pass = 0
    /\ op = NoOp
    /\ wrote = NoWrite
    /\ ret = NoResult
    /\ procs = NoProcs

\* get_links_in_file(filepath) returns, or raises when the note is missing
get_links_in_file ==
    /\ pc = "reads"
    /\ pass < MaxOps
    /\ \E filepath \in {PathB, PathN, PathZ} :
          /\ op' = [name |-> "get_links_in_file", filepath |-> filepath]
          /\ ret' = [of |-> "get_links_in_file",
                     raised |-> filepath \notin DOMAIN notes,
                     value |-> IF filepath \notin DOMAIN notes THEN <<>>
                               ELSE IF backend = "api"
                               THEN Obsidian_links(notes[filepath])
                               ELSE GitHubBackend_links(notes[filepath]),
                     count |-> 0, before |-> notes]
    /\ pass' = pass + 1
    /\ UNCHANGED <<backend, vault, cache, inp, out, pc, notes, wrote, procs>>

\* get_batch_file_contents(filepaths) returns
get_batch_file_contents ==
    /\ pc = "reads"
    /\ pass < MaxOps
    /\ \E filepaths \in BatchRequests(MaxBatch) :
          /\ op' = [name |-> "get_batch_file_contents", filepaths |-> filepaths]
          /\ ret' = [of |-> "get_batch_file_contents", raised |-> FALSE,
                     value |-> get_batch_file_contents_of(backend, notes, filepaths),
                     count |-> 0, before |-> notes]
    /\ pass' = pass + 1
    /\ UNCHANGED <<backend, vault, cache, inp, out, pc, notes, wrote, procs>>

ReadNext == get_links_in_file \/ get_batch_file_contents

ReadSpec == ReadInit /\ [][ReadNext]_vars


\* the targets of the References of a text, in order of appearance
ReferenceTargets(s) ==
    [k \in 1..Len(LinkSeqFrom(s, 1)) |-> TargetOf(LinkSeqFrom(s, 1)[k])]

\* a url with an http scheme
HasHttpScheme(url) ==
    \/ StartsWith(url, <<"h", "t", "t", "p", ":", "/", "/">>)
    \/ StartsWith(url, <<"h", "t", "t", "p", "s", ":", "/", "/">>)

\* the urls with an http scheme of the bracketed-URL links of a text, in
\* order of appearance
ExternalUrls(s) == SelectSeq(MdUrlSeqFrom(s, 1), HasHttpScheme)

\* C21: get_links_in_file returns the targets of the References of the
\* note in order of appearance, duplicates kept, and as external links the
\* urls with an http scheme of its bracketed-URL links in order of
\* appearance, and no relative link
LinksInOrder ==
    (pc = "reads" /\ ret.of = "get_links_in_file" /\ ~ret.raised) =>
        /\ [k \in 1..Len(ret.value[1]) |-> TargetOf(ret.value[1][k])]
               = ReferenceTargets(notes[op.filepath])
        /\ ret.value[2] = ExternalUrls(notes[op.filepath])

\* C23: get_batch_file_contents returns one section for each path asked
\* for, in the order asked: the content of the note, or an error text
\* when the note cannot be read, the paths after it still being read
SectionPerPath ==
    (pc = "reads" /\ ret.of = "get_batch_file_contents") =>
        ret.value =
            Concat([k \in 1..Len(op.filepaths) |->
                       Section(op.filepaths[k],
                               IF op.filepaths[k] \in DOMAIN notes
                               THEN notes[op.filepaths[k]]
                               ELSE (IF backend = "api"
                                     THEN <<"E", "r", "r", "o", "r", " ", "r", "e", "a", "d",
                                            "i", "n", "g", " ", "f", "i", "l", "e", ":", " ">>
                                     ELSE <<"E", "r", "r", "o", "r", ":", " ">>)
                                    \o ErrorText(backend, op.filepaths[k]))])

\* a path that is not in the vault was asked for first, a note after it
SectionPerPathWitness ==
    /\ pc = "reads"
    /\ ret.of = "get_batch_file_contents"
    /\ op.filepaths = <<PathZ, PathB>>
    /\ Contains(ret.value, Section(PathB, notes[PathB]))
    /\ Contains(ret.value, ErrorText(backend, PathZ))

-----------------------------------------------------------------------------
(* Header operations: get_frontmatter and update_frontmatter of the two    *)
(* backends, and patch_content as one call.  A header map is a function    *)
(* from keys to values; yaml.dump and yaml.safe_load are outside the       *)
(* repository and are modelled on block mappings of one-character keys and *)
(* string values, a value that starts with a bracket being single-quoted.  *)

EmptyMap == [k \in {} |-> <<>>]

\* the keys of the model in the order yaml.dump sorts them
SortedKeys == <<"k", "r">>

\* a string scalar as yaml.dump writes it
YamlScalar(v) ==
    IF v # <<>> /\ v[1] = "[" THEN <<"'">> \o v \o <<"'">> ELSE v

RECURSIVE YamlLines(_, _)
YamlLines(fm, keys) ==
    IF keys = <<>> THEN <<>>
    ELSE (IF Head(keys) \in DOMAIN fm
          THEN <<Head(keys), ":", " ">> \o YamlScalar(fm[Head(keys)]) \o <<"\n">>
          ELSE <<>>) \o YamlLines(fm, Tail(keys))

\* yaml.dump(fm, default_flow_style=False, allow_unicode=True)
yaml_dump(fm) ==
    IF DOMAIN fm = {} THEN <<"{", "}", "\n">> ELSE YamlLines(fm, SortedKeys)

\* a string scalar as yaml.safe_load reads it
YamlValue(v) ==
    IF Len(v) >= 2 /\ v[1] = "'" /\ v[Len(v)] = "'" THEN SubSeq(v, 2, Len(v) - 1)
    ELSE v

\* the line is "key: value"
IsEntry(line) ==
    /\ Len(line) >= 4
    /\ line[2] = ":"
    /\ line[3] = " "
    /\ line[1] \notin {"{", "'", "[", " ", "-"}
    /\ line[4] \notin {"[", "{", " "}

\* every line of text from position i on is "key: value"
RECURSIVE AllEntries(_, _)
AllEntries(text, i) ==
    IF i > Len(text) THEN TRUE
    ELSE /\ IsEntry(SubSeq(text, i, RunUntil(text, i, {"\n"}) - 1))
         /\ AllEntries(text, RunUntil(text, i, {"\n"}) + 1)

\* the map of the lines of text from position i on, a later line of a key
\* replacing an earlier one
RECURSIVE EntriesFrom(_, _)
EntriesFrom(text, i) ==
    IF i > Len(text) THEN EmptyMap
    ELSE EntriesFrom(text, RunUntil(text, i, {"\n"}) + 1)
             @@ (text[i] :> YamlValue(SubSeq(text, i + 3, RunUntil(text, i, {"\n"}) - 1)))

\* yaml.safe_load(text) where the callers take it as a header map: the map
\* of a block mapping, and the empty map for a text that is no mapping or
\* that does not parse
yaml_safe_load(text) ==
    IF AllEntries(text, 1) THEN EntriesFrom(text, 1) ELSE EmptyMap

\* the first position >= i of s that holds no white space
RECURSIVE SpaceRunEnd(_, _)
SpaceRunEnd(s, i) ==
    IF i > Len(s) THEN i
    ELSE IF IsSpace(s[i]) THEN SpaceRunEnd(s, i + 1)
    ELSE i

\* the last position p with lo <= p <= hi and s[p] a newline, 0 if none
RECURSIVE LastNewline(_, _, _)
LastNewline(s, lo, hi) ==
    IF hi < lo THEN 0
    ELSE IF s[hi] = "\n" THEN hi
    ELSE LastNewline(s, lo, hi - 1)

\* where \s*\n ends when it starts at i, the \s* as long as it can be:
\* 0 if it does not match
SpaceNewlineEnd(s, i) == LastNewline(s, i, SpaceRunEnd(s, i) - 1)

\* \n---\s*\n matches at j
ClosesAt(s, j) ==
    MatchAt(s, j, <<"\n", "-", "-", "-">>) /\ SpaceNewlineEnd(s, j + 4) # 0

\* the first position >= j where the closing of the header matches
RECURSIVE FirstClose(_, _)
FirstClose(s, j) ==
    IF j > Len(s) THEN 0
    ELSE IF ClosesAt(s, j) THEN j
    ELSE FirstClose(s, j + 1)

\* the start of group 1 of r'^---\s*\n(.*?)\n---\s*\n': the \s* gives back
\* from the newline at p down to position 4 until the rest matches
RECURSIVE OpenAt(_, _)
OpenAt(s, p) ==
    IF p < 4 THEN 0
    ELSE IF s[p] = "\n" /\ FirstClose(s, p + 1) # 0 THEN p + 1
    ELSE OpenAt(s, p - 1)

HeaderStart(s) ==
    IF StartsWith(s, <<"-", "-", "-">>) THEN OpenAt(s, SpaceRunEnd(s, 4) - 1) ELSE 0

\* match.group(1) and match.group(2) of the patterns of class Obsidian
Obsidian_group1(content) ==
    SubSeq(content, HeaderStart(content),
           FirstClose(content, HeaderStart(content)) - 1)

Obsidian_group2(content) ==
    From(content,
         SpaceNewlineEnd(content, FirstClose(content, HeaderStart(content)) + 4) + 1)

\* class Obsidian, get_frontmatter, of the content of the note
Obsidian_get_frontmatter(content) ==
    IF HeaderStart(content) = 0 THEN EmptyMap
    ELSE yaml_safe_load(Obsidian_group1(content))

\* class Obsidian, update_frontmatter: new_content
Obsidian_new_content(content, updates) ==
    IF HeaderStart(content) = 0
    THEN Delim \o yaml_dump(updates) \o Delim \o content
    ELSE Delim \o yaml_dump(updates @@ yaml_safe_load(Obsidian_group1(content)))
             \o Delim \o Obsidian_group2(content)

\* class GitHubBackend, get_frontmatter, of the content of the note
GitHubBackend_get_frontmatter(content) ==
    IF ~StartsWith(content, Delim) THEN EmptyMap
    ELSE IF Len(SplitDelim(content)) < 3 THEN EmptyMap
    ELSE yaml_safe_load(SplitDelim(content)[2])

\* class GitHubBackend, update_frontmatter: new_content
GitHubBackend_new_content(content, updates) ==
    Delim \o yaml_dump(updates @@ GitHubBackend_get_frontmatter(content)) \o Delim
        \o (IF StartsWith(content, Delim) /\ Len(SplitDelim(content)) >= 3
            THEN SplitDelim(content)[3]
            ELSE content)

HeaderMap(b, content) ==
    IF b = "api" THEN Obsidian_get_frontmatter(content)
    ELSE GitHubBackend_get_frontmatter(content)

\* a patch that creates the note when it is missing
Patched_or_created(ns, filepath, operation, content) ==
    IF filepath \notin DOMAIN ns THEN (filepath :> content) @@ ns
    ELSE IF operation = "prepend"
    THEN (filepath :> (content \o <<"\n">> \o ns[filepath])) @@ ns
    ELSE (filepath :> (ns[filepath] \o <<"\n">> \o content)) @@ ns

\* class GitHubBackend, patch_content: the notes once it has returned or
\* raised, content being the rewritten payload
Patched(ns, filepath, operation, content) ==
    IF filepath \notin DOMAIN ns THEN ns
    ELSE IF operation = "prepend"
    THEN (filepath :> (content \o <<"\n">> \o ns[filepath])) @@ ns
    ELSE (filepath :> (ns[filepath] \o <<"\n">> \o content)) @@ ns

\* the header maps update_frontmatter is called with
Updates ==
    {("k" :> <<"y">>),
     ("r" :> Open \o PathN \o Close),
     ("k" :> <<"y">>) @@ ("r" :> <<"x">>)}

\* the texts of the note: without a header, with a header, and with a
\* header that has a Reference in it
FrontTexts ==
    {<<"x">>,
     Delim \o <<"k", ":", " ", "x", "\n">> \o Delim \o <<"x">>,
     Delim \o <<"r", ":", " ", "'">> \o Open \o <<"n">> \o Close \o <<"'", "\n">>
         \o Delim \o <<"\n", "x">>}

FrontCorpora == {(PathB :> t) @@ (PathN :> <<"x">>) : t \in FrontTexts}

FrontPayloads == {<<"x">>, <<"\"">> \o PathN \o <<"\"">>}

FrontInit ==
    /\ backend \in Backends
    /\ notes \in FrontCorpora
    /\ vault = DOMAIN notes
    /\ cache = EmptyCache
    /\ inp = <<>>
    /\ out = <<>>
    /\ pc = "front"
    /\ pass = 0
    /\ op = NoOp
    /\ wrote = NoWrite
    /\ ret = NoResult
    /\ procs = NoProcs

\* get_frontmatter(filepath) returns, or raises when the note is missing
get_frontmatter ==
    /\ pc = "front"
    /\ pass < MaxOps
    /\ \E filepath \in {PathB, PathZ} :
          /\ op' = [name |-> "get_frontmatter", filepath |-> filepath]
          /\ ret' = [of |-> "get_frontmatter",
                     raised |-> filepath \notin DOMAIN notes,
                     value |-> IF filepath \notin DOMAIN notes THEN EmptyMap
                               ELSE HeaderMap(backend, notes[filepath]),
                     count |-> 0, before |-> notes]
    /\ pass' = pass + 1
    /\ UNCHANGED <<backend, vault, cache, inp, out, pc, notes, wrote, procs>>

\* update_frontmatter(filepath, updates) returns, or raises when the read
\* of the note raises; class Obsidian hands new_content to put_content,
\* which rewrites it and sends it, GitHubBackend writes it
update_frontmatter ==
    /\ pc = "front"
    /\ pass < MaxOps
    /\ \E filepath \in {PathB, PathZ}, updates \in Updates :
          /\ op' = [name |-> "update_frontmatter", filepath |-> filepath,
                    updates |-> updates]
          /\ ret' = [of |-> "update_frontmatter",
                     raised |-> filepath \notin DOMAIN notes,
                     value |-> EmptyMap, count |-> 0, before |-> notes]
          /\ IF filepath \notin DOMAIN notes
             THEN UNCHANGED <<notes, cache, wrote>>
             ELSE IF backend = "api"
             THEN \E r \in _auto_link_content(backend, cache, vault,
                               Obsidian_new_content(notes[filepath], updates)) :
                     /\ wrote' = [by |-> "PUT", filepath |-> filepath, data |-> r.t]
                     /\ notes' = ServerApply(notes, "PUT", filepath, "none", r.t)
                     /\ cache' = r.c
             ELSE /\ wrote' = [by |-> "update_frontmatter", filepath |-> filepath,
                               data |-> GitHubBackend_new_content(notes[filepath], updates)]
                  /\ notes' = (filepath :> wrote'.data) @@ notes
                  /\ UNCHANGED cache
    /\ pass' = pass + 1
    /\ UNCHANGED <<backend, vault, inp, out, pc, procs>>

\* patch_content(filepath, operation, ..., content) returns or raises: the
\* payload is rewritten, then class Obsidian sends a PATCH, which the
\* server answers with an error when the note is missing, and
\* GitHubBackend reads the note and writes it
patch_content ==
    /\ pc = "front"
    /\ pass < MaxOps
    /\ \E filepath \in {PathB, PathZ}, content \in FrontPayloads,
          operation \in Operations("patch_content") :
          /\ op' = [name |-> "patch_content", filepath |-> filepath,
                    operation |-> operation]
          /\ inp' = content
          /\ ret' = [of |-> "patch_content",
                     raised |-> filepath \notin DOMAIN notes,
                     value |-> EmptyMap, count |-> 0, before |-> notes]
          /\ \E r \in _auto_link_content(backend, cache, vault, content) :
                /\ out' = r.t
                /\ cache' = r.c
                /\ notes' = IF backend = "api"
                            THEN ServerApply(notes, "PATCH", filepath, operation, r.t)
                            ELSE Patched(notes, filepath, operation, r.t)
                /\ wrote' = IF backend = "api"
                            THEN [by |-> "PATCH", filepath |-> filepath, data |-> r.t]
                            ELSE IF filepath \in DOMAIN notes
                            THEN [by |-> "patch_content", filepath |-> filepath,
                                  data |-> notes'[filepath]]
                            ELSE wrote
    /\ pass' = pass + 1
    /\ UNCHANGED <<backend, vault, pc, procs>>

FrontNext == get_frontmatter \/ update_frontmatter \/ patch_content

FrontSpec == FrontInit /\ [][FrontNext]_vars


\* C22: patch_content and update_frontmatter called for a note that is
\* missing raise to their caller and store nothing: the corpus is after the
\* call what it was before it
MissingTargetRaises ==
    (/\ pc = "front"
     /\ ret.of \in {"patch_content", "update_frontmatter"}
     /\ op.filepath \notin DOMAIN ret.before)
        => ret.raised /\ notes = ret.before

\* both operations have raised for the missing note, in one session
MissingTargetRaisesWitness ==
    /\ pc = "front"
    /\ pass = 2
    /\ ret.of = "update_frontmatter"
    /\ op.filepath = PathZ
    /\ ret.raised
    /\ inp # <<>>
    /\ PathZ \notin DOMAIN notes

\* C25: once update_frontmatter(path, updates) has returned,
\* get_frontmatter(path) returns the header map the note had before with
\* every key of updates mapped to the value given
HeaderUpdated ==
    (/\ pc = "front"
     /\ ret.of = "update_frontmatter"
     /\ ~ret.raised)
        => HeaderMap(backend, notes[op.filepath])
               = op.updates @@ HeaderMap(backend, ret.before[op.filepath])


-----------------------------------------------------------------------------
\* C24: over the same corpus and for the same input the rewrite of class
\* Obsidian and the rewrite of class GitHubBackend return the same text
BackendsAgree ==
    pc = "ready" =>
        RewriteTexts("api", EmptyCache, vault, inp)
            = RewriteTexts("fs", EmptyCache, vault, inp)


-----------------------------------------------------------------------------
(* The normalizer on its own: the rewrite of one Reference whose target is *)
(* a path with relative segments, with a doubled extension, or the path of *)
(* a folder.                                                               *)

PathAb == <<"a", "b", ".", "m", "d">>

\* ../b.md  ./../b.md  a./b.md  a/../b.md  b.md.md  a/  a/b.md  b
NormTargets ==
    {<<".", ".", "/">> \o PathB,
     <<".", "/", ".", ".", "/">> \o PathB,
     <<"a", ".", "/">> \o PathB,
     <<"a", "/", ".", ".", "/">> \o PathB,
     PathB \o Md,
     <<"a", "/">>,
     PathAB,
     <<"b">>}

NormCorpora == {{PathB}, {PathAB}, {PathAb}, {PathB, PathAB}}

NormInit ==
    /\ backend \in Backends
    /\ vault \in NormCorpora
    /\ cache = EmptyCache
    /\ inp \in {Open \o t \o Close : t \in NormTargets}
    /\ out = <<>>
    /\ pc = "target"
    /\ pass = 0
    /\ notes = [p \in vault |-> <<>>]
    /\ op = NoOp
    /\ wrote = NoWrite
    /\ ret = NoResult
    /\ procs = NoProcs

\* the rewrite of the Reference returns
Normalize ==
    /\ pc = "target"
    /\ \E r \in _auto_link_content(backend, cache, vault, inp) :
          /\ out' = r.t
          /\ cache' = r.c
    /\ pc' = "normalized"
    /\ pass' = pass + 1
    /\ UNCHANGED <<backend, vault, inp, session, procs>>

NormNext == Normalize

NormSpec == NormInit /\ [][NormNext]_vars


\* what is between the brackets of a text that is one Reference
Between(s) == SubSeq(s, 3, Len(s) - 2)

\* s without the run of ../ and ./ segments it starts with
RECURSIVE StripLeading(_)
StripLeading(s) ==
    IF StartsWith(s, <<".", ".", "/">>) THEN StripLeading(From(s, 4))
    ELSE IF StartsWith(s, <<".", "/">>) THEN StripLeading(From(s, 3))
    ELSE s

\* C26: the name a rewritten Reference gets is its target without the
\* leading run of ../ and ./ segments, cut to the last segment, without one
\* trailing .md; a ./ or ../ further on in the target is not removed
LeadingRunOnly ==
    (pc = "normalized" /\ out # inp) =>
        Between(out) = DropMd(LastSegment(StripLeading(Between(inp))))

\* C27: a Reference the rewrite has rewritten is canonical: its name is not
\* empty, has no directory separator in it and does not end in .md
RewrittenIsCanonical ==
    (pc = "normalized" /\ out # inp) =>
        /\ Between(out) # <<>>
        /\ ~Contains(Between(out), <<"/">>)
        /\ ~EndsWith(Between(out), Md)


-----------------------------------------------------------------------------
\* the bare name of a path
BareName(path) == DropMd(LastSegment(path))

\* where the Reference to the name old that starts at position i of s ends,
\* with or without display text; 0 if there is none
RefToEnd(s, i, old) ==
    IF ~MatchAt(s, i, Open \o old) THEN 0
    ELSE IF MatchAt(s, i + 2 + Len(old), Close) THEN i + 4 + Len(old)
    ELSE IF /\ MatchAt(s, i + 2 + Len(old), <<"|">>)
            /\ RunUntil(s, i + 3 + Len(old), {"]"}) > i + 3 + Len(old)
            /\ MatchAt(s, RunUntil(s, i + 3 + Len(old), {"]"}), Close)
    THEN RunUntil(s, i + 3 + Len(old), {"]"}) + 2
    ELSE 0

\* where the external-style link to old_path that starts at position i of
\* s ends; 0 if there is none
LinkToEnd(s, i, old_path) ==
    IF /\ MatchAt(s, i, <<"[">>)
       /\ RunUntil(s, i + 1, {"]"}) > i + 1
       /\ MatchAt(s, RunUntil(s, i + 1, {"]"}), <<"]", "(">> \o old_path \o <<")">>)
    THEN RunUntil(s, i + 1, {"]"}) + 3 + Len(old_path)
    ELSE 0

\* the texts that differ from s, from position i on, only in References to
\* the bare name of old_path, renamed to the bare name of new_path, and in
\* external-style links to old_path, pointed to new_path
RECURSIVE OnlyLinksDiffer(_, _, _, _)
OnlyLinksDiffer(s, old_path, new_path, i) ==
    IF i > Len(s) THEN {<<>>}
    ELSE {<<s[i]>> \o r : r \in OnlyLinksDiffer(s, old_path, new_path, i + 1)}
         \cup (IF RefToEnd(s, i, BareName(old_path)) = 0 THEN {}
               ELSE {Open \o BareName(new_path)
                         \o SubSeq(s, i + 2 + Len(BareName(old_path)),
                                   RefToEnd(s, i, BareName(old_path)) - 1) \o r :
                        r \in OnlyLinksDiffer(s, old_path, new_path,
                                              RefToEnd(s, i, BareName(old_path)))})
         \cup (IF LinkToEnd(s, i, old_path) = 0 THEN {}
               ELSE {SubSeq(s, i, RunUntil(s, i + 1, {"]"}) + 1) \o new_path \o <<")">> \o r :
                        r \in OnlyLinksDiffer(s, old_path, new_path,
                                              LinkToEnd(s, i, old_path))})

\* C28: update_links changes in a note only the References to the old bare
\* name and the external-style links to the old path; every other
\* character of every note is stored as it was
OnlyLinksChanged ==
    (pc = "links" /\ ret.of = "update_links") =>
        /\ DOMAIN notes = DOMAIN ret.before
        /\ \A f \in DOMAIN notes :
              notes[f] \in OnlyLinksDiffer(ret.before[f], op.old_path, op.new_path, 1)


-----------------------------------------------------------------------------
(* rename_attachment, statement by statement.  A request of class Obsidian *)
(* may fail; the failure of the PUT of the new file or of the DELETE of    *)
(* the old one is raised to the caller, a failure while a referencing file *)
(* is updated is swallowed.  GitHubBackend renames the file and then       *)
(* updates the markdown files.                                             *)

PathP == <<"p", ".", "t">>
PathAP == <<"a", "/", "p", ".", "t">>
NameQ == <<"q", ".", "t">>

\* '/'.join(old_path.split('/')[:-1])
Directory(old_path) == SubSeq(old_path, 1, LastSlash(old_path, Len(old_path)) - 1)

\* new_path of rename_attachment
NewPath(old_path, new_name) ==
    IF Directory(old_path) = <<>> THEN new_name
    ELSE Directory(old_path) \o <<"/">> \o new_name

\* find_attachment_references of class Obsidian
Obsidian_find_attachment_references(ns, filepath) ==
    ServerSearch(ns, LastSegment(filepath)) \ {filepath}

\* the contents of the attachment, one of them a text the rewrite changes
AttachContents == {<<"x">>, <<"\"">> \o PathN \o <<"\"">>}

\* the texts of the note: with and without an embed of the attachment
AttachTexts == {<<"x">>, <<"!">> \o Open \o PathP \o Close}

AttachCorpora ==
    {(a :> c) @@ (PathN :> t) :
        a \in {PathP, PathAP}, c \in AttachContents, t \in AttachTexts}

AttachInit ==
    /\ backend \in Backends
    /\ notes \in AttachCorpora
    /\ vault = DOMAIN notes
    /\ cache = EmptyCache
    /\ inp = <<>>
    /\ out = <<>>
    /\ pc = "attach"
    /\ pass = 0
    /\ op = NoOp
    /\ wrote = NoWrite
    /\ ret = NoResult
    /\ procs = NoProcs

\* rename_attachment(old_path, new_name) is entered: new_path, and the
\* referencing files of class Obsidian
rename_attachment ==
    /\ pc = "attach"
    /\ pass < MaxOps
    /\ \E old_path \in {PathP, PathAP}, new_name \in {NameQ, PathP} :
          op' = [name |-> "rename_attachment", old_path |-> old_path,
                 new_name |-> new_name, new_path |-> NewPath(old_path, new_name),
                 refs |-> IF backend = "api"
                          THEN Obsidian_find_attachment_references(notes, old_path)
                          ELSE {},
                 content |-> <<>>]
    /\ ret' = [of |-> "rename_attachment", raised |-> FALSE, value |-> {},
               count |-> 0, before |-> notes]
    /\ pc' = IF backend = "api" THEN "read" ELSE "rename"
    /\ pass' = pass + 1
    /\ UNCHANGED <<backend, vault, cache, inp, out, notes, wrote, procs>>

\* content = self.get_file_contents(old_path)
Obsidian_get_content ==
    /\ pc = "read"
    /\ IF op.old_path \in DOMAIN notes
       THEN /\ op' = [op EXCEPT !.content = notes[op.old_path]]
            /\ pc' = "put"
            /\ UNCHANGED ret
       ELSE /\ ret' = [ret EXCEPT !.raised = TRUE]
            /\ pc' = "attach"
            /\ UNCHANGED op
    /\ UNCHANGED <<backend, vault, cache, inp, out, pass, notes, wrote, procs>>

\* self.put_content(new_path, content)
Obsidian_put_new ==
    /\ pc = "put"
    /\ \E r \in _auto_link_content(backend, cache, vault, op.content), sent \in BOOLEAN :
          /\ cache' = r.c
          /\ IF sent
             THEN /\ notes' = ServerApply(notes, "PUT", op.new_path, "none", r.t)
                  /\ wrote' = [by |-> "PUT", filepath |-> op.new_path, data |-> r.t]
                  /\ pc' = "refs"
                  /\ UNCHANGED ret
             ELSE /\ ret' = [ret EXCEPT !.raised = TRUE]
                  /\ pc' = "attach"
                  /\ UNCHANGED <<notes, wrote>>
    /\ vault' = DOMAIN notes'
    /\ UNCHANGED <<backend, inp, out, pass, op, procs>>

\* one turn of the loop over referencing_files
Obsidian_update_reference ==
    /\ pc = "refs"
    /\ \E ref_file \in op.refs :
          /\ op' = [op EXCEPT !.refs = @ \ {ref_file}]
          /\ IF ref_file \notin DOMAIN notes
             THEN UNCHANGED <<notes, cache, wrote>>
             ELSE \E r \in _auto_link_content(backend, cache, vault,
                               ReplaceAll(notes[ref_file], LastSegment(op.old_path),
                                          op.new_name)),
                     sent \in BOOLEAN :
                     /\ cache' = r.c
                     /\ IF sent
                        THEN /\ notes' = ServerApply(notes, "PUT", ref_file, "none", r.t)
                             /\ wrote' = [by |-> "PUT", filepath |-> ref_file, data |-> r.t]
                        ELSE UNCHANGED <<notes, wrote>>
    /\ vault' = DOMAIN notes'
    /\ UNCHANGED <<backend, inp, out, pc, pass, ret, procs>>

\* self.delete_file(old_path)
Obsidian_delete_old ==
    /\ pc = "refs"
    /\ op.refs = {}
    /\ \E sent \in BOOLEAN :
          IF sent /\ op.old_path \in DOMAIN notes
          THEN /\ notes' = ServerApply(notes, "DELETE", op.old_path, "none", <<>>)
               /\ wrote' = [by |-> "DELETE", filepath |-> op.old_path, data |-> <<>>]
               /\ UNCHANGED ret
          ELSE /\ ret' = [ret EXCEPT !.raised = TRUE]
               /\ UNCHANGED <<notes, wrote>>
    /\ vault' = DOMAIN notes'
    /\ pc' = "attach"
    /\ UNCHANGED <<backend, cache, inp, out, pass, op, procs>>

\* old_file_path.rename(new_file_path), and the list the loop runs over
GitHubBackend_rename ==
    /\ pc = "rename"
    /\ IF op.old_path \in DOMAIN notes
       THEN /\ notes' = (op.new_path :> notes[op.old_path]) @@ Without(notes, op.old_path)
            /\ wrote' = [by |-> "rename", filepath |-> op.new_path,
                         data |-> notes[op.old_path]]
            /\ op' = [op EXCEPT !.refs = GitHubBackend_list_markdown_files(DOMAIN notes')]
            /\ pc' = "fsrefs"
            /\ UNCHANGED ret
       ELSE /\ ret' = [ret EXCEPT !.raised = TRUE]
            /\ pc' = "attach"
            /\ UNCHANGED <<notes, wrote, op>>
    /\ vault' = DOMAIN notes'
    /\ UNCHANGED <<backend, cache, inp, out, pass, procs>>

\* one turn of the loop over the markdown files
GitHubBackend_update_reference ==
    /\ pc = "fsrefs"
    /\ \E md_file \in op.refs :
          /\ op' = [op EXCEPT !.refs = @ \ {md_file}]
          /\ IF md_file \in DOMAIN notes
                /\ Contains(notes[md_file], LastSegment(op.old_path))
             THEN /\ notes' = (md_file :> ReplaceAll(notes[md_file],
                                                     LastSegment(op.old_path),
                                                     op.new_name)) @@ notes
                  /\ wrote' = [by |-> "rename_attachment", filepath |-> md_file,
                               data |-> notes'[md_file]]
             ELSE UNCHANGED <<notes, wrote>>
    /\ UNCHANGED <<backend, vault, cache, inp, out, pc, pass, ret, procs>>

\* the loop is over: rename_attachment returns
GitHubBackend_return ==
    /\ pc = "fsrefs"
    /\ op.refs = {}
    /\ pc' = "attach"
    /\ UNCHANGED <<backend, vault, cache, inp, out, pass, notes, op, wrote, ret, procs>>

AttachNext ==
    \/ rename_attachment
    \/ Obsidian_get_content
    \/ Obsidian_put_new
    \/ Obsidian_update_reference
    \/ Obsidian_delete_old
    \/ GitHubBackend_rename
    \/ GitHubBackend_update_reference
    \/ GitHubBackend_return

AttachSpec == AttachInit /\ [][AttachNext]_vars


\* the text is stored at the path
StoredAt(ns, path, text) == path \in DOMAIN ns /\ ns[path] = text

\* C29: while rename_attachment runs and once it has returned or raised,
\* the content the attachment had when the call was entered is stored
\* unaltered at the old path or at the new path
AttachmentKept ==
    (/\ ret.of = "rename_attachment"
     /\ op.old_path \in DOMAIN ret.before)
        => \/ StoredAt(notes, op.old_path, ret.before[op.old_path])
           \/ StoredAt(notes, op.new_path, ret.before[op.old_path])


-----------------------------------------------------------------------------
(* git_sync of class GitHubBackend, command by command.  The repository is *)
(* the notes of the work tree, the snapshot of the last commit (head) and  *)
(* the snapshot the remote has; every git command may fail.  The log holds *)
(* the commands the running call has run, each with its outcome: for       *)
(* status, whether it printed anything.                                    *)

Steps == <<"add", "status", "commit", "pull", "push">>

\* where git_sync goes on after a command, whatever its outcome
AfterStep_whatever(cmd, ok) ==
    CASE cmd = "add" -> "status"
      [] cmd = "status" -> "commit"
      [] cmd = "commit" -> "pull"
      [] cmd = "pull" -> "push"
      [] cmd = "push" -> "git"

\* where git_sync goes on after a command: a command that fails raises
\* (check=True), a status that prints nothing returns
AfterStep(cmd, ok) ==
    IF ~ok THEN "git"
    ELSE CASE cmd = "add" -> "status"
           [] cmd = "status" -> "commit"
           [] cmd = "commit" -> "pull"
           [] cmd = "pull" -> "push"
           [] cmd = "push" -> "git"

Logged(cmd, ok) == [procs EXCEPT !.log = Append(@, [cmd |-> cmd, ok |-> ok])]

GitTexts == {<<"x">>, <<"y">>, <<"\"">> \o PathN \o <<"\"">>}

GitInit ==
    /\ backend = "fs"
    /\ notes \in {(PathN :> <<"x">>), (PathN :> <<"x">>) @@ (PathB :> <<"x">>)}
    /\ vault = DOMAIN notes
    /\ cache = EmptyCache
    /\ inp = <<>>
    /\ out = <<>>
    /\ pc = "git"
    /\ pass = 0
    /\ op = NoOp
    /\ wrote = NoWrite
    /\ ret = NoResult
    /\ procs \in {[head |-> h, remote |-> h, log |-> <<>>] :
                     h \in {notes, (PathN :> <<"x">>)}}

\* put_content of class GitHubBackend: a change of the work tree
GitHubBackend_put_content ==
    /\ pc = "git"
    /\ pass < MaxOps
    /\ \E content \in GitTexts :
          /\ inp' = content
          /\ \E r \in _auto_link_content(backend, cache, vault, content) :
                /\ out' = r.t
                /\ cache' = r.c
                /\ wrote' = [by |-> "put_content", filepath |-> PathB, data |-> r.t]
                /\ notes' = (PathB :> r.t) @@ notes
    /\ vault' = DOMAIN notes'
    /\ op' = [name |-> "put_content", filepath |-> PathB, operation |-> "none"]
    /\ ret' = [of |-> "put_content", raised |-> FALSE, value |-> "success",
               count |-> 0, before |-> notes]
    /\ pass' = pass + 1
    /\ UNCHANGED <<backend, pc, procs>>

\* git_sync is entered
git_sync ==
    /\ pc = "git"
    /\ pass < MaxOps
    /\ op' = [name |-> "git_sync", filepath |-> <<>>, operation |-> "none"]
    /\ ret' = [of |-> "git_sync", raised |-> FALSE, value |-> "running",
               count |-> 0, before |-> notes]
    /\ procs' = [procs EXCEPT !.log = <<>>]
    /\ pc' = "add"
    /\ pass' = pass + 1
    /\ UNCHANGED <<backend, vault, cache, inp, out, notes, wrote>>

\* git add -A
git_add ==
    /\ pc = "add"
    /\ \E ok \in BOOLEAN :
          /\ procs' = Logged("add", ok)
          /\ pc' = AfterStep("add", ok)
          /\ ret' = [ret EXCEPT !.raised = ~ok,
                                !.value = IF ok THEN @ ELSE "Git sync failed"]
    /\ UNCHANGED <<backend, vault, cache, inp, out, pass, notes, op, wrote>>

\* git status --porcelain, run without check: it prints something when it
\* succeeds and the work tree differs from the last commit
git_status ==
    /\ pc = "status"
    /\ \E ok \in BOOLEAN :
          /\ procs' = Logged("status", ok /\ notes # procs.head)
          /\ pc' = AfterStep("status", ok /\ notes # procs.head)
          /\ ret' = [ret EXCEPT !.value = IF ok /\ notes # procs.head THEN @
                                          ELSE "No changes to commit"]
    /\ UNCHANGED <<backend, vault, cache, inp, out, pass, notes, op, wrote>>

\* git commit -m commit_message
git_commit ==
    /\ pc = "commit"
    /\ \E ok \in BOOLEAN :
          /\ procs' = [Logged("commit", ok) EXCEPT
                          !.head = IF ok THEN notes ELSE @]
          /\ pc' = AfterStep("commit", ok)
          /\ ret' = [ret EXCEPT !.raised = ~ok,
                                !.value = IF ok THEN @ ELSE "Git sync failed"]
    /\ UNCHANGED <<backend, vault, cache, inp, out, pass, notes, op, wrote>>

\* git pull --rebase: the remote of the model has nothing new
git_pull ==
    /\ pc = "pull"
    /\ \E ok \in BOOLEAN :
          /\ procs' = Logged("pull", ok)
          /\ pc' = AfterStep("pull", ok)
          /\ ret' = [ret EXCEPT !.raised = ~ok,
                                !.value = IF ok THEN @ ELSE "Git sync failed"]
    /\ UNCHANGED <<backend, vault, cache, inp, out, pass, notes, op, wrote>>

\* git push, and the return of git_sync
git_push ==
    /\ pc = "push"
    /\ \E ok \in BOOLEAN :
          /\ procs' = [Logged("push", ok) EXCEPT
                          !.remote = IF ok THEN procs.head ELSE @]
          /\ pc' = AfterStep("push", ok)
          /\ ret' = [ret EXCEPT !.raised = ~ok,
                                !.value = IF ok THEN "Changes synced to GitHub"
                                          ELSE "Git sync failed"]
    /\ UNCHANGED <<backend, vault, cache, inp, out, pass, notes, op, wrote>>

GitNext ==
    \/ GitHubBackend_put_content
    \/ git_sync
    \/ git_add
    \/ git_status
    \/ git_commit
    \/ git_pull
    \/ git_push

GitSpec == GitInit /\ [][GitNext]_vars


\* the commands of the log, in the order they were run
Commands(log) == [i \in 1..Len(log) |-> log[i].cmd]

\* C30: the commands git_sync has run are stage, status, commit, pull and
\* push in this order, each run only when every command before it has
\* succeeded and status has shown changes; a call that returns 'No changes
\* to commit' has run stage and status only; a call whose stage, commit,
\* pull or push failed has raised and has run nothing after the command
\* that failed; a call that returns 'Changes synced to GitHub' has run all
\* five
SyncInOrder ==
    ret.of = "git_sync" =>
        /\ Len(procs.log) <= Len(Steps)
        /\ Commands(procs.log) = SubSeq(Steps, 1, Len(procs.log))
        /\ \A i \in 1..(Len(procs.log) - 1) : procs.log[i].ok
        /\ (Len(procs.log) >= 2 /\ ~procs.log[2].ok) =>
              ret.value = "No changes to commit"
        /\ ret.value = "No changes to commit" =>
              /\ pc = "git"
              /\ Commands(procs.log) = <<"add", "status">>
              /\ ~ret.raised
        /\ (procs.log # <<>> /\ ~procs.log[Len(procs.log)].ok
              /\ procs.log[Len(procs.log)].cmd # "status") =>
              ret.raised /\ pc = "git"
        /\ ret.value = "Changes synced to GitHub" =>
              /\ Commands(procs.log) = Steps
              /\ procs.log[Len(Steps)].ok
              /\ procs.remote = notes

\* one session has a call that found nothing to commit, or a change, and
\* then a call that ran all five commands
SyncInOrderWitness ==
    /\ pc = "git"
    /\ pass = 2
    /\ ret.of = "git_sync"
    /\ ret.value = "Changes synced to GitHub"
    /\ Len(procs.log) = 5


=============================================================================
